---------------------------- MODULE Spec2Model ----------------------------
(***************************************************************************)
(* Termination & protection engine of the ExHon proctored exam platform    *)
(* (src/killer.py, class ProcessKiller): classification of processes as    *)
(* AI applications, the protected exam domain, the escalating kill of AI   *)
(* processes, the closing of browser tabs through the browsers' remote     *)
(* debugging endpoints, the combined workflow and its preview.             *)
(*                                                                         *)
(* Python strings are sequences of one-character strings, so that          *)
(* str.lower, the `in` substring test and urllib.parse.urlparse are        *)
(* computed character by character, as the library computes them.          *)
(***************************************************************************)
EXTENDS Integers, Sequences, FiniteSets, TLC

(***************************************************************************)
(* Python values                                                           *)
(***************************************************************************)
\* Python's None (never equal to a string, which is a sequence of characters)
NoneVal == <<"<None>">>

\* truthiness of an optional string: None and '' are falsy
Truthy(s) == s # NoneVal /\ s # <<>>

UpperCase ==
  <<"A", "B", "C", "D", "E", "F", "G", "H", "I", "J", "K", "L", "M",
    "N", "O", "P", "Q", "R", "S", "T", "U", "V", "W", "X", "Y", "Z">>

LowerCase ==
  <<"a", "b", "c", "d", "e", "f", "g", "h", "i", "j", "k", "l", "m",
    "n", "o", "p", "q", "r", "s", "t", "u", "v", "w", "x", "y", "z">>

Digits == {"0", "1", "2", "3", "4", "5", "6", "7", "8", "9"}

Range(f) == {f[i] : i \in DOMAIN f}

IsAlpha(c) == c \in Range(UpperCase) \cup Range(LowerCase)

\* one character of str.lower()
LowerChar(c) ==
  IF c \in Range(UpperCase)
    THEN LowerCase[CHOOSE i \in DOMAIN UpperCase : UpperCase[i] = c]
    ELSE c

\* str.lower()
lower(s) == [i \in 1..Len(s) |-> LowerChar(s[i])]

\* Python's `needle in hay` on strings
Contains(hay, needle) ==
  \E i \in 0..(Len(hay) - Len(needle)) :
     SubSeq(hay, i + 1, i + Len(needle)) = needle

\* hay.startswith(prefix)
StartsWith(hay, prefix) ==
  Len(hay) >= Len(prefix) /\ SubSeq(hay, 1, Len(prefix)) = prefix

(***************************************************************************)
(* ProcessKiller.__init__ : the classifier's tables and the port tables    *)
(***************************************************************************)
ai_applications ==
  <<
     <<"c", "h", "a", "t", "g", "p", "t", ".", "e", "x", "e">>,
     <<"c", "l", "a", "u", "d", "e", ".", "e", "x", "e">>,
     <<"g", "e", "m", "i", "n", "i", ".", "e", "x", "e">>,
     <<"c", "o", "p", "i", "l", "o", "t", ".", "e", "x", "e">>,
     <<"g", "i", "t", "h", "u", "b", " ", "c", "o", "p", "i", "l", "o", "t", ".", "e", "x", "e">>,
     <<"o", "p", "e", "n", "a", "i", ".", "e", "x", "e">>,
     <<"a", "n", "t", "h", "r", "o", "p", "i", "c", ".", "e", "x", "e">>,
     <<"b", "a", "r", "d", ".", "e", "x", "e">>,
     <<"p", "e", "r", "p", "l", "e", "x", "i", "t", "y", ".", "e", "x", "e">>,
     <<"t", "a", "b", "n", "i", "n", "e", ".", "e", "x", "e">>,
     <<"c", "o", "d", "e", "w", "h", "i", "s", "p", "e", "r", "e", "r", ".", "e", "x", "e">>,
     <<"c", "o", "d", "e", "x", ".", "e", "x", "e">>,
     <<"c", "u", "r", "s", "o", "r", ".", "e", "x", "e">>,
     <<"w", "i", "n", "d", "s", "u", "r", "f", ".", "e", "x", "e">>,
     <<"b", "o", "l", "t", ".", "e", "x", "e">>,
     <<"r", "e", "p", "l", "i", "t", ".", "e", "x", "e">>
  >>

ai_keywords ==
  <<
     <<"c", "h", "a", "t", "g", "p", "t">>,
     <<"c", "l", "a", "u", "d", "e">>,
     <<"g", "e", "m", "i", "n", "i">>,
     <<"c", "o", "p", "i", "l", "o", "t">>,
     <<"g", "i", "t", "h", "u", "b", " ", "c", "o", "p", "i", "l", "o", "t">>,
     <<"o", "p", "e", "n", "a", "i">>,
     <<"a", "n", "t", "h", "r", "o", "p", "i", "c">>,
     <<"b", "a", "r", "d">>,
     <<"b", "i", "n", "g", " ", "c", "h", "a", "t">>,
     <<"p", "e", "r", "p", "l", "e", "x", "i", "t", "y">>,
     <<"t", "a", "b", "n", "i", "n", "e">>,
     <<"c", "o", "d", "e", "w", "h", "i", "s", "p", "e", "r", "e", "r">>,
     <<"c", "o", "d", "e", "x">>,
     <<"c", "u", "r", "s", "o", "r">>,
     <<"w", "i", "n", "d", "s", "u", "r", "f">>,
     <<"b", "o", "l", "t">>,
     <<"r", "e", "p", "l", "i", "t">>,
     <<"g", "p", "t">>,
     <<"l", "l", "m">>,
     <<"a", "i", " ", "a", "s", "s", "i", "s", "t", "a", "n", "t">>
  >>

Families == {"chrome", "firefox", "edge"}

\* the order in which close_browser_tabs and _preview_browser_tabs take them
FamilyOrder == <<"chrome", "firefox", "edge">>

browser_ports ==
  [chrome  |-> <<9222, 9223, 9224>>,
   edge    |-> <<9225, 9226, 9227>>,
   firefox |-> <<9228, 9229, 9230>>]

Ports == UNION {Range(browser_ports[f]) : f \in Families}

\* a faulty variant: the keyword table is not consulted
is_ai_application_exact(process_name) ==
  \E i \in DOMAIN ai_applications : lower(ai_applications[i]) = lower(process_name)

(***************************************************************************)
(* ProcessKiller._is_ai_application                                        *)
(***************************************************************************)
_is_ai_application(process_name) ==
  LET name_lower == lower(process_name)
  IN  \/ \E i \in DOMAIN ai_applications : lower(ai_applications[i]) = name_lower
      \/ \E k \in DOMAIN ai_keywords : Contains(name_lower, ai_keywords[k])

(***************************************************************************)
(* urllib.parse.urlparse(url).netloc, as urlsplit computes it: an optional *)
(* scheme (a letter, then letters, digits, "+", "-", "." up to the first   *)
(* ":") is cut off; the network location is what follows a leading "//"   *)
(* up to the first "/", "?" or "#", and is empty without a leading "//".   *)
(* A network location with an unmatched "[" or "]" raises ValueError.      *)
(***************************************************************************)
ValueError == <<"<ValueError>">>

SchemeChars == Range(UpperCase) \cup Range(LowerCase) \cup Digits \cup {"+", "-", "."}

\* str.find(c): the first index (1-based) of a character of cs at or after
\* from, or 0
FindFrom(s, cs, from) ==
  IF \E i \in from..Len(s) : s[i] \in cs
    THEN CHOOSE i \in from..Len(s) :
           s[i] \in cs /\ \A j \in from..(i - 1) : s[j] \notin cs
    ELSE 0

\* the url with its scheme and the ":" after it removed, when it has one
StripScheme(url) ==
  LET i == FindFrom(url, {":"}, 1)
  IN  IF i > 1 /\ IsAlpha(url[1]) /\ \A j \in 1..(i - 1) : url[j] \in SchemeChars
        THEN SubSeq(url, i + 1, Len(url))
        ELSE url

\* _splitnetloc(url, 2) followed by urlsplit's bracket check
netloc(url) ==
  LET rest  == StripScheme(url)
      delim == FindFrom(rest, {"/", "?", "#"}, 3)
      loc   == IF delim = 0 THEN SubSeq(rest, 3, Len(rest))
                            ELSE SubSeq(rest, 3, delim - 1)
  IN  IF StartsWith(rest, <<"/", "/">>)
        THEN IF ("[" \in Range(loc)) # ("]" \in Range(loc)) THEN ValueError ELSE loc
        ELSE <<>>

(***************************************************************************)
(* The values the model draws its inputs from                              *)
(***************************************************************************)
\* 'http://localhost:5000/exam': the exam page
url_exam == <<"h", "t", "t", "p", ":", "/", "/", "l", "o", "c", "a", "l", "h", "o", "s", "t", ":", "5", "0", "0", "0", "/", "e", "x", "a", "m">>

\* 'http://localhost:5000/result?id=7': same authority, other path and query
url_exam_result == <<"h", "t", "t", "p", ":", "/", "/", "l", "o", "c", "a", "l", "h", "o", "s", "t", ":", "5", "0", "0", "0", "/", "r", "e", "s", "u", "l", "t", "?", "i", "d", "=", "7">>

\* 'localhost:5000/exam': the exam page typed without a scheme
url_exam_bare == <<"l", "o", "c", "a", "l", "h", "o", "s", "t", ":", "5", "0", "0", "0", "/", "e", "x", "a", "m">>

\* 'https://exam.edu/start': another exam site
url_exam_edu == <<"h", "t", "t", "p", "s", ":", "/", "/", "e", "x", "a", "m", ".", "e", "d", "u", "/", "s", "t", "a", "r", "t">>

\* 'https://chat.openai.com/': a page that is not the exam
url_chat == <<"h", "t", "t", "p", "s", ":", "/", "/", "c", "h", "a", "t", ".", "o", "p", "e", "n", "a", "i", ".", "c", "o", "m", "/">>

\* 'http://x.localhost:5000/': a subdomain of the exam host
url_subdomain == <<"h", "t", "t", "p", ":", "/", "/", "x", ".", "l", "o", "c", "a", "l", "h", "o", "s", "t", ":", "5", "0", "0", "0", "/">>

\* 'http://localhost:5001/exam': the exam host on another port
url_other_port == <<"h", "t", "t", "p", ":", "/", "/", "l", "o", "c", "a", "l", "h", "o", "s", "t", ":", "5", "0", "0", "1", "/", "e", "x", "a", "m">>

\* 'http://localhost:5000.io/': a host that starts with the exam authority
url_prefixed == <<"h", "t", "t", "p", ":", "/", "/", "l", "o", "c", "a", "l", "h", "o", "s", "t", ":", "5", "0", "0", "0", ".", "i", "o", "/">>

\* 'about:blank': a URL with no authority
url_blank == <<"a", "b", "o", "u", "t", ":", "b", "l", "a", "n", "k">>

\* 'http://[::1/exam': urlparse raises ValueError
url_bad == <<"h", "t", "t", "p", ":", "/", "/", "[", ":", ":", "1", "/", "e", "x", "a", "m">>

\* 'Cursor.exe': in ai_applications once lower-cased
name_cursor == <<"C", "u", "r", "s", "o", "r", ".", "e", "x", "e">>

\* 'My GPT Helper': matches the keyword 'gpt' only
name_helper == <<"M", "y", " ", "G", "P", "T", " ", "H", "e", "l", "p", "e", "r">>

\* 'bash': not an AI application
name_bash == <<"b", "a", "s", "h">>

\* what a caller passes as exam_url
ExamURLs == {<<>>, url_exam, url_exam_bare, url_exam_edu, url_bad}

\* the URLs a tab is asked about
TabURLs ==
  {<<>>, url_exam, url_exam_result, url_exam_bare, url_exam_edu, url_chat,
   url_subdomain, url_other_port, url_prefixed, url_blank}

\* the number of process ids
MaxPid == 2

Pids == 1..MaxPid

\* no process has this pid
Absent == <<"<absent>">>

\* psutil gives the name None for a process it may not inspect (ad_value)
ProcNames == {name_cursor, name_helper, name_bash, NoneVal}

\* the entries a debugging endpoint lists
Tab(id, type, url, title) == [id |-> id, type |-> type, url |-> url, title |-> title]

tab_exam == Tab("A", "page", url_exam_result, "Exam")

tab_chat == Tab("B", "page", url_chat, "ChatGPT")

tab_worker == Tab("C", "service_worker", url_exam, "worker")

TabPool == {tab_exam, tab_chat, tab_worker}

\* the number of tabs open over all endpoints
MaxTabs == 2

\* sequences without repetition over S, of length at most n
InjSeqs(S, n) ==
  {s \in UNION {[1..k -> S] : k \in 0..n} :
     \A i, j \in DOMAIN s : i # j => s[i] # s[j]}

(***************************************************************************)
(* State                                                                   *)
(***************************************************************************)
VARIABLES
  exam_domain,  \* ProcessKiller.exam_domain: None, or the stored authority
  procs,        \* the process table: pid -> name, NoneVal or Absent
  endpoint,     \* port -> what GET /json/list meets: "refused", "http500", "up"
  tabs,         \* port -> the entries the endpoint lists, in order
  op,           \* the operation that ran last, with its arguments
  result,       \* what that operation returned
  log,          \* the calls that operation made on processes and endpoints, in order
  threads,      \* the web server's request threads: where each is in its handler
  monitoring_active,   \* app.py's global of that name
  update_thread,       \* app.py's global: the monitoring thread started last, or None
  loops,               \* the monitoring_loop threads: where each is in its loop
  demo_mode_enabled,   \* app.py's global of that name
  demo_ai_processes,   \* app.py's global: the names of the demo processes
  demo_browser_tabs,   \* app.py's global: family -> the demo tabs
  demo_summary         \* app.py's global: total_tabs and the count per family

\* app.py 34-43: the module's globals
app_globals ==
  <<monitoring_active, update_thread, loops,
    demo_mode_enabled, demo_ai_processes, demo_browser_tabs, demo_summary>>

vars == <<exam_domain, procs, endpoint, tabs, op, result, log, threads, app_globals>>

\* one call made on the operating system or on an endpoint (or, for
\* "TimeoutExpired", the exception wait() raised)
Event(ev, pid, port, id) == [ev |-> ev, pid |-> pid, port |-> port, id |-> id]

\* a call of a public method, and whether it ended by raising
Call(name, arg) == [name |-> name, arg |-> arg, raised |-> FALSE]

\* urlparse(url).netloc on each URL of the model, computed once
URLs == ExamURLs \cup TabURLs

urlparse_netloc == [url \in URLs |-> netloc(url)]

(***************************************************************************)
(* ProcessKiller.set_exam_domain: the value of exam_domain after the call, *)
(* or ValueError when urlparse raises (exam_domain is then left as it was) *)
(***************************************************************************)
set_exam_domain(exam_url) ==
  IF Truthy(exam_url) THEN urlparse_netloc[exam_url] ELSE exam_domain

\* a faulty variant: the stored domain is not tested before the comparison
is_exam_tab_unguarded(domain, tab_url) ==
  IF ~Truthy(tab_url) THEN FALSE
  ELSE urlparse_netloc[tab_url] = domain

\* a faulty variant: the tab's whole URL, not its netloc, is compared
is_exam_tab_by_url(domain, tab_url) ==
  IF ~Truthy(domain) \/ ~Truthy(tab_url)
    THEN FALSE
    ELSE tab_url = domain

(***************************************************************************)
(* ProcessKiller._is_exam_tab, with self.exam_domain as `domain`.  The tab *)
(* URLs of the model all parse: none makes urlparse raise here.            *)
(***************************************************************************)
_is_exam_tab(domain, tab_url) ==
  IF ~Truthy(domain) \/ ~Truthy(tab_url)
    THEN FALSE
    ELSE urlparse_netloc[tab_url] = domain

(***************************************************************************)
(* ProcessKiller.kill_ai_applications                                      *)
(***************************************************************************)
\* psutil.process_iter: the pids of the process table, ascending
RECURSIVE PidsFrom(_)
PidsFrom(p) ==
  IF p > MaxPid THEN <<>>
  ELSE IF procs[p] = Absent THEN PidsFrom(p + 1)
  ELSE <<p>> \o PidsFrom(p + 1)

process_iter == PidsFrom(1)

(* What the operating system does with one process once it is signalled:   *)
(*   exits            terminate() is delivered and wait() returns in time   *)
(*   denied           terminate() raises AccessDenied                       *)
(*   vanished         terminate() raises NoSuchProcess                      *)
(*   timeout_killed   wait() raises TimeoutExpired, kill() is delivered     *)
(*   timeout_denied   wait() raises TimeoutExpired, kill() raises           *)
(*                    AccessDenied                                          *)
(*   timeout_vanished wait() raises TimeoutExpired, the process exits,      *)
(*                    kill() raises NoSuchProcess                           *)
Fates ==
  {"exits", "denied", "vanished",
   "timeout_killed", "timeout_denied", "timeout_vanished"}

\* process_iter itself raising, after it has yielded `after` processes
IterFaults ==
  [raises : {FALSE}, after : {0}] \cup [raises : {TRUE}, after : 0..Len(process_iter)]

Signal(st, ev, pid) == [st EXCEPT !.log = Append(@, Event(ev, pid, 0, ""))]

Gone(st, pid) == [st EXCEPT !.procs[pid] = Absent]

\* results['killed'].append(...)
Killed(st, pid, method) ==
  [st EXCEPT !.killed =
     Append(@, [name |-> procs[pid], pid |-> pid, method |-> method])]

\* results['failed'].append(...)
Failed(st, pid, error) ==
  [st EXCEPT !.failed =
     Append(@, [name |-> procs[pid], pid |-> pid, error |-> error])]

\* a faulty variant: the forced kill is recorded before kill() has returned
force_kill_recorded_first(st, pid, fate) ==
  LET sent == Killed(Signal(st, "kill", pid), pid, "force_kill")
  IN  CASE fate = "timeout_killed"   -> Gone(sent, pid)
        [] fate = "timeout_denied"   -> Failed(sent, pid, "AccessDenied")
        [] fate = "timeout_vanished" -> Gone(Failed(sent, pid, "NoSuchProcess"), pid)

\* lines 84-96: the forced kill after wait() timed out
force_kill(st, pid, fate) ==
  LET sent == Signal(st, "kill", pid)
  IN  CASE fate = "timeout_killed"   -> Gone(Killed(sent, pid, "force_kill"), pid)
        [] fate = "timeout_denied"   -> Failed(sent, pid, "AccessDenied")
        [] fate = "timeout_vanished" -> Gone(Failed(sent, pid, "NoSuchProcess"), pid)

\* the fate of a signalled process (one the environment did not expect to be
\* signalled exits at once)
FateOf(fate, pid) == IF pid \in DOMAIN fate THEN fate[pid] ELSE "exits"

\* a faulty variant: the forced kill follows the wait whether it timed out or not
terminate_and_kill(st, pid, fate) ==
  LET sent == Signal(st, "terminate", pid)
  IN  CASE fate = "denied"   -> Failed(sent, pid, "AccessDenied")
        [] fate = "vanished" -> Gone(Failed(sent, pid, "NoSuchProcess"), pid)
        [] fate = "exits"    ->
             Gone(Killed(Signal(Signal(sent, "wait", pid), "kill", pid), pid, "terminate"), pid)
        [] OTHER             ->
             force_kill(Signal(Signal(sent, "wait", pid), "TimeoutExpired", pid), pid, fate)

\* lines 69-103: terminate, wait, and what the except clauses record
terminate_process(st, pid, fate) ==
  LET sent == Signal(st, "terminate", pid)
  IN  CASE fate = "denied"   -> Failed(sent, pid, "AccessDenied")
        [] fate = "vanished" -> Gone(Failed(sent, pid, "NoSuchProcess"), pid)
        [] fate = "exits"    ->
             Gone(Killed(Signal(sent, "wait", pid), pid, "terminate"), pid)
        [] OTHER             ->
             force_kill(Signal(Signal(sent, "wait", pid), "TimeoutExpired", pid), pid, fate)

\* line 66 and line 68 on each name a process can have, computed once
classified ==
  [name \in ProcNames \ {NoneVal} |-> _is_ai_application(lower(name))]

\* a faulty variant: the except clause starts the results afresh
phase_fault_discarding(st, error) ==
  [st EXCEPT !.killed = <<>>, !.failed = <<[error |-> error]>>]

\* lines 108-110: the outer except clause
phase_fault(st, error) ==
  [st EXCEPT !.failed = Append(@, [error |-> error])]

\* a faulty variant: the loop ends at the first process it records as failed
RECURSIVE kill_loop_until_failure(_, _, _, _)
kill_loop_until_failure(st, i, fate, fault) ==
  IF fault.raises /\ fault.after = i - 1
    THEN phase_fault(st, "process_iter")
  ELSE IF i > Len(process_iter) \/ st.failed # <<>>
    THEN st
  ELSE LET pid == process_iter[i]
       IN  IF procs[pid] = NoneVal
             THEN phase_fault(st, "AttributeError")
           ELSE IF classified[procs[pid]]
             THEN kill_loop_until_failure(terminate_process(st, pid, FateOf(fate, pid)),
                                          i + 1, fate, fault)
           ELSE kill_loop_until_failure(st, i + 1, fate, fault)

\* a faulty variant: the loop without the classifier's test
RECURSIVE kill_loop_unclassified(_, _, _, _)
kill_loop_unclassified(st, i, fate, fault) ==
  IF fault.raises /\ fault.after = i - 1
    THEN phase_fault(st, "process_iter")
  ELSE IF i > Len(process_iter)
    THEN st
  ELSE LET pid == process_iter[i]
       IN  IF procs[pid] = NoneVal
             THEN phase_fault(st, "AttributeError")
           ELSE kill_loop_unclassified(terminate_process(st, pid, FateOf(fate, pid)),
                                       i + 1, fate, fault)

\* lines 63-106: the loop over process_iter, from its i-th process on
RECURSIVE kill_loop(_, _, _, _)
kill_loop(st, i, fate, fault) ==
  IF fault.raises /\ fault.after = i - 1
    THEN phase_fault(st, "process_iter")
  ELSE IF i > Len(process_iter)
    THEN st
  ELSE LET pid == process_iter[i]
       IN  IF procs[pid] = NoneVal
             THEN phase_fault(st, "AttributeError")   \* None.lower()
           ELSE IF classified[procs[pid]]
             THEN kill_loop(terminate_process(st, pid, FateOf(fate, pid)), i + 1, fate, fault)
           ELSE kill_loop(st, i + 1, fate, fault)

\* what the method returns, the calls it made and the environment it leaves
kill_returns(st) ==
  [results |-> [killed |-> st.killed, failed |-> st.failed, not_found |-> <<>>],
   log     |-> st.log,
   procs   |-> st.procs,
   tabs    |-> tabs]

\* the whole method
kill_ai_applications(fate, fault) ==
  kill_returns(kill_loop([killed |-> <<>>, failed |-> <<>>, log |-> <<>>, procs |-> procs],
                         1, fate, fault))


(***************************************************************************)
(* SystemMonitor (monitor.py): its own port table, its own classifier and  *)
(* get_browser_tabs                                                        *)
(***************************************************************************)
monitor_browser_ports ==
  [chrome  |-> <<9222, 9223, 9224>>,
   edge    |-> <<9225, 9226, 9227>>,
   firefox |-> <<9228, 9229, 9230>>]

\* the local list of SystemMonitor._is_ai_application
monitor_ai_keywords ==
  <<
     <<"c", "h", "a", "t", "g", "p", "t">>,
     <<"c", "l", "a", "u", "d", "e">>,
     <<"g", "e", "m", "i", "n", "i">>,
     <<"c", "o", "p", "i", "l", "o", "t">>,
     <<"g", "i", "t", "h", "u", "b", " ", "c", "o", "p", "i", "l", "o", "t">>,
     <<"o", "p", "e", "n", "a", "i">>,
     <<"a", "n", "t", "h", "r", "o", "p", "i", "c">>,
     <<"b", "a", "r", "d">>,
     <<"b", "i", "n", "g", " ", "c", "h", "a", "t">>,
     <<"p", "e", "r", "p", "l", "e", "x", "i", "t", "y">>,
     <<"t", "a", "b", "n", "i", "n", "e">>,
     <<"c", "o", "d", "e", "w", "h", "i", "s", "p", "e", "r", "e", "r">>,
     <<"c", "o", "d", "e", "x">>,
     <<"g", "p", "t">>,
     <<"l", "l", "m">>
  >>

\* SystemMonitor._is_ai_application
monitor_is_ai_application(process_name) ==
  LET name_lower == lower(process_name)
  IN  \E k \in DOMAIN monitor_ai_keywords : Contains(name_lower, monitor_ai_keywords[k])

\* the monitor's classifier on each name a process can have, computed once
monitor_classified ==
  [name \in ProcNames \ {NoneVal} |-> monitor_is_ai_application(name)]

\* tab.get('actor') of an entry that has no such key, tab.get('id') otherwise
NoActor == "<None>"

\* one entry of the list a _get_<family>_tabs method returns
MonitorEntry(family, port, tab) ==
  [id      |-> IF family = "firefox" THEN NoActor ELSE tab.id,
   title   |-> tab.title,
   url     |-> tab.url,
   browser |-> family,
   port    |-> port]

\* the entries appended for one port that answered 200
monitor_listed_tabs(family, port) ==
  LET shown == IF family = "firefox" THEN tabs[port]
               ELSE SelectSeq(tabs[port], LAMBDA t : t.type = "page")
  IN  [i \in DOMAIN shown |-> MonitorEntry(family, port, shown[i])]

\* the loop of a _get_<family>_tabs method over its ports, from the k-th
RECURSIVE monitor_ports(_, _, _)
monitor_ports(st, family, k) ==
  IF k > Len(monitor_browser_ports[family])
    THEN st
  ELSE LET port == monitor_browser_ports[family][k]
           seen == [st EXCEPT !.log = Append(@, Event("list", 0, port, ""))]
       IN  IF endpoint[port] = "up"
             THEN [seen EXCEPT !.entries = monitor_listed_tabs(family, port)]   \* then break
             ELSE monitor_ports(seen, family, k + 1)                            \* continue

_get_chrome_tabs(made) == monitor_ports([entries |-> <<>>, log |-> made], "chrome", 1)

_get_firefox_tabs(made) == monitor_ports([entries |-> <<>>, log |-> made], "firefox", 1)

_get_edge_tabs(made) == monitor_ports([entries |-> <<>>, log |-> made], "edge", 1)

\* all_tabs[family] = <the list>, when the list is not empty
family_listed(all, family, st) ==
  [results |-> IF st.entries = <<>> THEN all.results
               ELSE [f \in DOMAIN all.results \cup {family} |->
                       IF f = family THEN st.entries ELSE all.results[f]],
   log     |-> st.log,
   procs   |-> all.procs,
   tabs    |-> all.tabs]

chrome_listed(all) == family_listed(all, "chrome", _get_chrome_tabs(all.log))

firefox_listed(all) == family_listed(all, "firefox", _get_firefox_tabs(all.log))

edge_listed(all) == family_listed(all, "edge", _get_edge_tabs(all.log))

\* all_tabs = {}
NoTabs == [f \in {} |-> <<>>]

\* SystemMonitor.get_browser_tabs: its return value and the requests it made
get_browser_tabs ==
  edge_listed(firefox_listed(chrome_listed(
    [results |-> NoTabs, log |-> <<>>, procs |-> procs, tabs |-> tabs])))

(***************************************************************************)
(* SystemMonitor.get_running_processes and get_ai_processes.  Of an entry  *)
(* the pid, the name and the is_ai_app flag are kept; memory_percent is    *)
(* the environment's, and shows in the order of the list alone.            *)
(***************************************************************************)
\* lines 36-50: the processes with an entry, from the i-th of process_iter on
RECURSIVE monitor_processes(_, _, _)
monitor_processes(found, i, fault) ==
  IF fault.raises /\ fault.after = i - 1
    THEN found                                             \* the outer except logs
  ELSE IF i > Len(process_iter)
    THEN found
  ELSE LET pid == process_iter[i]
       IN  IF Truthy(procs[pid])
             THEN monitor_processes(found \cup {pid}, i + 1, fault)
           ELSE monitor_processes(found, i + 1, fault)

\* the orders descending memory_percent can put the processes in
MemoryOrders == Permutations(Pids)

\* lines 40-48: the entry appended
ProcessEntry(pid) ==
  [pid |-> pid, name |-> procs[pid], is_ai_app |-> monitor_classified[procs[pid]]]

\* sorted(processes, key=lambda x: x['memory_percent'], reverse=True)
sorted_by_memory(found, order) ==
  LET ranked == SelectSeq([k \in Pids |-> order[k]], LAMBDA pid : pid \in found)
  IN  [k \in DOMAIN ranked |-> ProcessEntry(ranked[k])]

get_running_processes(order, fault) ==
  sorted_by_memory(monitor_processes({}, 1, fault), order)

get_ai_processes(order, fault) ==
  SelectSeq(get_running_processes(order, fault), LAMBDA proc : proc.is_ai_app)
(***************************************************************************)
(* ProcessKiller.close_browser_tabs and the three per-family methods       *)
(***************************************************************************)
(* What a tab's endpoint does with GET /json/close/<id>:                    *)
(*   ok        answers 200 and the tab closes                               *)
(*   notfound  answers another status: the tab went away after it was listed*)
(*   error     the request raises (timeout, connection reset): the tab stays*)
CloseFates == {"ok", "notfound", "error"}

\* the ids of the tabs open on some endpoint
OpenIds == UNION {{tabs[p][i].id : i \in DOMAIN tabs[p]} : p \in Ports}

\* requests.get(f'http://localhost:{port}/json/list') is issued
Listed(st, port) == [st EXCEPT !.log = Append(@, Event("list", 0, port, ""))]

\* requests.get(f'http://localhost:{port}/json/close/{tab_id}') is issued
CloseSent(st, port, id) == [st EXCEPT !.log = Append(@, Event("close", 0, port, id))]

\* the tab is no longer open on the port
TabGone(st, port, id) ==
  [st EXCEPT !.tabs[port] = SelectSeq(@, LAMBDA t : t.id # id)]

\* result['errors'].append(...)
ErrorAdded(st, text, label, about, port) ==
  [st EXCEPT !.errors =
     Append(@, [text |-> text, label |-> label, about |-> about, port |-> port])]

\* a faulty variant: a close request that fails is counted as a closed tab too
close_tab_counting_failures(st, label, port, tab, fate) ==
  LET sent == [CloseSent(st, port, tab.id) EXCEPT !.closed = @ + 1]
  IN  CASE fate = "ok"       -> TabGone(sent, port, tab.id)
        [] fate = "notfound" ->
             TabGone(ErrorAdded(sent, "Failed to close", label, tab.title, 0), port, tab.id)
        [] fate = "error"    -> ErrorAdded(sent, "Error closing", label, tab.id, 0)

\* a faulty variant: a close request answered with another status than 200 is
\* not recorded at all
close_tab_dropping_refusals(st, label, port, tab, fate) ==
  LET sent == CloseSent(st, port, tab.id)
  IN  CASE fate = "ok"       -> TabGone([sent EXCEPT !.closed = @ + 1], port, tab.id)
        [] fate = "notfound" -> TabGone(sent, port, tab.id)
        [] fate = "error"    -> ErrorAdded(sent, "Error closing", label, tab.id, 0)

\* lines 179-191 (chrome) and 252-264 (edge): the close request for one tab
close_tab(st, label, port, tab, fate) ==
  LET sent == CloseSent(st, port, tab.id)
  IN  CASE fate = "ok"       -> TabGone([sent EXCEPT !.closed = @ + 1], port, tab.id)
        [] fate = "notfound" ->
             TabGone(ErrorAdded(sent, "Failed to close", label, tab.title, 0), port, tab.id)
        [] fate = "error"    -> ErrorAdded(sent, "Error closing", label, tab.id, 0)

\* a faulty variant: the loop without the test of the entry's type
RECURSIVE close_listed_entries(_, _, _, _, _, _, _)
close_listed_entries(st, label, port, i, domain, preserve_exam_tab, fate) ==
  IF i > Len(tabs[port])
    THEN st
  ELSE LET tab == tabs[port][i]
       IN  IF preserve_exam_tab /\ _is_exam_tab(domain, tab.url)
             THEN close_listed_entries([st EXCEPT !.preserved = @ + 1], label, port, i + 1,
                                       domain, preserve_exam_tab, fate)
           ELSE close_listed_entries(close_tab(st, label, port, tab, fate[tab.id]), label,
                                     port, i + 1, domain, preserve_exam_tab, fate)

\* lines 168-191 and 241-264: the loop over the listed entries, from the i-th
RECURSIVE close_listed_tabs(_, _, _, _, _, _, _)
close_listed_tabs(st, label, port, i, domain, preserve_exam_tab, fate) ==
  IF i > Len(tabs[port])
    THEN st
  ELSE LET tab == tabs[port][i]
       IN  IF tab.type # "page"
             THEN close_listed_tabs(st, label, port, i + 1, domain, preserve_exam_tab, fate)
           ELSE IF preserve_exam_tab /\ _is_exam_tab(domain, tab.url)
             THEN close_listed_tabs([st EXCEPT !.preserved = @ + 1], label, port, i + 1,
                                    domain, preserve_exam_tab, fate)
           ELSE close_listed_tabs(close_tab(st, label, port, tab, fate[tab.id]), label, port,
                                  i + 1, domain, preserve_exam_tab, fate)

\* a faulty variant: the loop over the ports without the break
RECURSIVE probe_every_chromium_port(_, _, _, _, _, _, _)
probe_every_chromium_port(st, family, label, k, domain, preserve_exam_tab, fate) ==
  IF k > Len(browser_ports[family])
    THEN st
  ELSE LET port == browser_ports[family][k]
       IN  IF endpoint[port] = "up"
             THEN probe_every_chromium_port(
                    close_listed_tabs(Listed(st, port), label, port, 1, domain,
                                      preserve_exam_tab, fate),
                    family, label, k + 1, domain, preserve_exam_tab, fate)
             ELSE probe_every_chromium_port(Listed(st, port), family, label, k + 1, domain,
                                            preserve_exam_tab, fate)

\* lines 161-196 and 235-269: the loop over the family's ports, from the k-th
RECURSIVE probe_chromium_ports(_, _, _, _, _, _, _)
probe_chromium_ports(st, family, label, k, domain, preserve_exam_tab, fate) ==
  IF k > Len(browser_ports[family])
    THEN st
  ELSE LET port == browser_ports[family][k]
       IN  IF endpoint[port] = "up"
             THEN close_listed_tabs(Listed(st, port), label, port, 1, domain,
                                    preserve_exam_tab, fate)        \* then break
             ELSE probe_chromium_ports(Listed(st, port), family, label, k + 1, domain,
                                       preserve_exam_tab, fate)     \* non-200, or except: continue

\* {'closed': 0, 'preserved': 0, 'errors': []}, with the calls made so far and
\* the tabs now open
FreshResult(made, open) ==
  [closed |-> 0, preserved |-> 0, errors |-> <<>>, log |-> made, tabs |-> open]

_close_chrome_tabs(made, open, domain, preserve_exam_tab, fate) ==
  probe_chromium_ports(FreshResult(made, open), "chrome", "tab", 1, domain,
                       preserve_exam_tab, fate)

_close_edge_tabs(made, open, domain, preserve_exam_tab, fate) ==
  probe_chromium_ports(FreshResult(made, open), "edge", "Edge tab", 1, domain,
                       preserve_exam_tab, fate)

\* a faulty variant: firefox entries filtered by type as the chromium ones are
RECURSIVE count_firefox_pages(_, _, _, _, _)
count_firefox_pages(st, port, i, domain, preserve_exam_tab) ==
  IF i > Len(tabs[port])
    THEN st
  ELSE IF tabs[port][i].type # "page"
    THEN count_firefox_pages(st, port, i + 1, domain, preserve_exam_tab)
  ELSE IF preserve_exam_tab /\ _is_exam_tab(domain, tabs[port][i].url)
    THEN count_firefox_pages([st EXCEPT !.preserved = @ + 1], port, i + 1, domain,
                             preserve_exam_tab)
  ELSE count_firefox_pages([st EXCEPT !.closed = @ + 1], port, i + 1, domain,
                           preserve_exam_tab)

\* lines 212-221: firefox's loop over the listed entries: no request is made
RECURSIVE count_firefox_tabs(_, _, _, _, _)
count_firefox_tabs(st, port, i, domain, preserve_exam_tab) ==
  IF i > Len(tabs[port])
    THEN st
  ELSE IF preserve_exam_tab /\ _is_exam_tab(domain, tabs[port][i].url)
    THEN count_firefox_tabs([st EXCEPT !.preserved = @ + 1], port, i + 1, domain,
                            preserve_exam_tab)
  ELSE count_firefox_tabs([st EXCEPT !.closed = @ + 1], port, i + 1, domain,
                          preserve_exam_tab)

\* lines 206-227
RECURSIVE probe_firefox_ports(_, _, _, _)
probe_firefox_ports(st, k, domain, preserve_exam_tab) ==
  IF k > Len(browser_ports.firefox)
    THEN st
  ELSE LET port == browser_ports.firefox[k]
       IN  CASE endpoint[port] = "up" ->
                  count_firefox_tabs(Listed(st, port), port, 1, domain, preserve_exam_tab)
             [] endpoint[port] = "http500" ->
                  probe_firefox_ports(Listed(st, port), k + 1, domain, preserve_exam_tab)
             [] endpoint[port] = "refused" ->
                  probe_firefox_ports(
                    ErrorAdded(Listed(st, port), "Firefox debugging error on port", "", "", port),
                    k + 1, domain, preserve_exam_tab)

_close_firefox_tabs(made, open, domain, preserve_exam_tab) ==
  probe_firefox_ports(FreshResult(made, open), 1, domain, preserve_exam_tab)

\* what a per-family method returns
FamilyResult(st) == [closed |-> st.closed, preserved |-> st.preserved, errors |-> st.errors]

\* results[family] = <what the family's method returned>, and the two totals
\* raised by its counts (lines 137-140, 143-146, 149-152)
family_closed(pass, family, st) ==
  [results |-> [pass.results EXCEPT
                  ![family] = FamilyResult(st),
                  !.total_closed = @ + st.closed,
                  !.total_preserved = @ + st.preserved],
   log   |-> st.log,
   procs |-> pass.procs,
   tabs  |-> st.tabs]

\* lines 128-134
FreshPass ==
  [results |->
     [chrome  |-> [closed |-> 0, preserved |-> 0, errors |-> <<>>],
      firefox |-> [closed |-> 0, preserved |-> 0, errors |-> <<>>],
      edge    |-> [closed |-> 0, preserved |-> 0, errors |-> <<>>],
      total_closed |-> 0, total_preserved |-> 0],
   log   |-> <<>>,
   procs |-> procs,
   tabs  |-> tabs]

chrome_pass(pass, domain, preserve_exam_tab, fate) ==
  family_closed(pass, "chrome",
                _close_chrome_tabs(pass.log, pass.tabs, domain, preserve_exam_tab, fate))

firefox_pass(pass, domain, preserve_exam_tab) ==
  family_closed(pass, "firefox",
                _close_firefox_tabs(pass.log, pass.tabs, domain, preserve_exam_tab))

edge_pass(pass, domain, preserve_exam_tab, fate) ==
  family_closed(pass, "edge",
                _close_edge_tabs(pass.log, pass.tabs, domain, preserve_exam_tab, fate))

\* the whole method: its return value, the calls it made, the tabs it leaves open
close_browser_tabs(domain, preserve_exam_tab, fate) ==
  edge_pass(firefox_pass(chrome_pass(FreshPass, domain, preserve_exam_tab, fate),
                         domain, preserve_exam_tab),
            domain, preserve_exam_tab, fate)

(***************************************************************************)
(* ProcessKiller.kill_all_targeted                                         *)
(***************************************************************************)
\* Python's sum(lists) with its default start 0: 0 + [...] raises TypeError
\* as soon as there is a first list, whatever the lists hold
py_sum(lists) ==
  IF lists = <<>> THEN [raised |-> FALSE, value |-> 0]
                  ELSE [raised |-> TRUE, value |-> 0]

\* browser.get('errors', []) for each dict among tab_results.values()
errors_of_browsers(tab_results) ==
  <<tab_results.chrome.errors, tab_results.firefox.errors, tab_results.edge.errors>>

\* line 308, reached when ai_results['failed'] is empty
errors_total(tab_results) == py_sum(errors_of_browsers(tab_results))

\* lines 306-309: the value of results['success'] when the try block ends
overall_success(ai_results, tab_results) ==
  IF Len(ai_results.failed) # 0
    THEN FALSE                                    \* `and` stops at its left side
    ELSE ~errors_total(tab_results).raised /\ errors_total(tab_results).value = 0

\* lines 311-313: the 'error' key the except clause adds (None without it)
overall_error(ai_results, tab_results) ==
  IF Len(ai_results.failed) = 0 /\ errors_total(tab_results).raised
    THEN <<"TypeError">>
    ELSE NoneVal

\* a faulty variant: the tabs are closed first, the processes killed next, the
\* domain stored last
kill_all_closing_first(ai, closing) ==
  [results |->
     [ai_applications |-> ai.results,
      browser_tabs    |-> closing.results,
      success         |-> overall_success(ai.results, closing.results),
      error           |-> overall_error(ai.results, closing.results)],
   log   |-> closing.log \o ai.log \o <<Event("set_exam_domain", 0, 0, "")>>,
   procs |-> ai.procs,
   tabs  |-> closing.tabs]

\* lines 286-315: the results dict built from the two phases
kill_all_returns(ai, closing) ==
  [results |->
     [ai_applications |-> ai.results,
      browser_tabs    |-> closing.results,
      success         |-> overall_success(ai.results, closing.results),
      error           |-> overall_error(ai.results, closing.results)],
   log   |-> <<Event("set_exam_domain", 0, 0, "")>> \o ai.log \o closing.log,
   procs |-> ai.procs,
   tabs  |-> closing.tabs]

\* the whole method once set_exam_domain has left `domain` in exam_domain
\* (the first event of its log stands for lines 283-284)
kill_all_targeted(domain, fate, fault, close_fate) ==
  kill_all_returns(kill_ai_applications(fate, fault),
                   close_browser_tabs(domain, TRUE, close_fate))

(***************************************************************************)
(* ProcessKiller.get_termination_preview                                   *)
(***************************************************************************)
\* a faulty variant: the preview classifies with the monitor's list of keywords
RECURSIVE preview_processes_as_monitor(_, _, _)
preview_processes_as_monitor(found, i, fault) ==
  IF fault.raises /\ fault.after = i - 1
    THEN found
  ELSE IF i > Len(process_iter)
    THEN found
  ELSE LET pid == process_iter[i]
       IN  IF procs[pid] = NoneVal
             THEN found
           ELSE IF monitor_classified[procs[pid]]
             THEN preview_processes_as_monitor(
                    Append(found, [name |-> procs[pid], pid |-> pid]), i + 1, fault)
           ELSE preview_processes_as_monitor(found, i + 1, fault)

\* lines 331-343: the AI applications found, from the i-th process on
RECURSIVE preview_processes(_, _, _)
preview_processes(found, i, fault) ==
  IF fault.raises /\ fault.after = i - 1
    THEN found                                             \* the outer except logs
  ELSE IF i > Len(process_iter)
    THEN found
  ELSE LET pid == process_iter[i]
       IN  IF procs[pid] = NoneVal
             THEN found                                    \* None.lower()
           ELSE IF classified[procs[pid]]
             THEN preview_processes(Append(found, [name |-> procs[pid], pid |-> pid]),
                                    i + 1, fault)
           ELSE preview_processes(found, i + 1, fault)

\* a faulty variant: the preview marks the tabs of the platform's own host,
\* whatever domain is protected
PreviewEntryByHost(domain, tab) ==
  [id |-> tab.id, title |-> tab.title, url |-> tab.url,
   will_be_preserved |-> Contains(tab.url, urlparse_netloc[url_exam])]

\* one entry of tabs_preview['chrome'] and of tabs_preview['edge']
PreviewEntry(domain, tab) ==
  [id |-> tab.id, title |-> tab.title, url |-> tab.url,
   will_be_preserved |-> _is_exam_tab(domain, tab.url)]

\* one entry of tabs_preview['firefox']: it has no id
FirefoxPreviewEntry(domain, tab) ==
  [title |-> tab.title, url |-> tab.url,
   will_be_preserved |-> _is_exam_tab(domain, tab.url)]

\* the entries appended for one port that answered 200
preview_listed_tabs(family, port, domain) ==
  IF family = "firefox"
    THEN [i \in DOMAIN tabs[port] |-> FirefoxPreviewEntry(domain, tabs[port][i])]
    ELSE LET shown == SelectSeq(tabs[port], LAMBDA t : t.type = "page")
         IN  [i \in DOMAIN shown |-> PreviewEntry(domain, shown[i])]

\* lines 359-408: one family's loop over its ports, from the k-th
RECURSIVE preview_ports(_, _, _, _)
preview_ports(st, family, k, domain) ==
  IF k > Len(browser_ports[family])
    THEN st
  ELSE LET port == browser_ports[family][k]
           seen == [st EXCEPT !.log = Append(@, Event("list", 0, port, ""))]
       IN  IF endpoint[port] = "up"
             THEN [seen EXCEPT !.entries = preview_listed_tabs(family, port, domain)]
             ELSE preview_ports(seen, family, k + 1, domain)

\* a faulty variant: the tabs a family's preview lists are closed by it
family_previewed_closing(preview, family, st) ==
  [results |-> [preview.results EXCEPT !.browser_tabs[family] = st.entries],
   log     |-> st.log,
   procs   |-> preview.procs,
   tabs    |-> [p \in Ports |->
                  IF p \in Range(browser_ports[family]) THEN <<>> ELSE preview.tabs[p]]]

\* tabs_preview[family] = <the entries found>
family_previewed(preview, family, st) ==
  [results |-> [preview.results EXCEPT !.browser_tabs[family] = st.entries],
   log     |-> st.log,
   procs   |-> preview.procs,
   tabs    |-> preview.tabs]

family_preview(preview, family, domain) ==
  family_previewed(preview, family,
                   preview_ports([entries |-> <<>>, log |-> preview.log], family, 1, domain))

\* lines 350-410, on the preview built so far
_preview_browser_tabs(preview, domain) ==
  family_preview(family_preview(family_preview(preview, "chrome", domain),
                                "firefox", domain),
                 "edge", domain)

\* a faulty variant: the preview finds the AI applications by terminating them
processes_previewed_by_killing(fault) ==
  [results |->
     [ai_applications |-> preview_processes(<<>>, 1, fault),
      browser_tabs    |-> [chrome |-> <<>>, firefox |-> <<>>, edge |-> <<>>],
      protected_tabs  |-> <<>>],
   log   |-> kill_ai_applications(<<>>, fault).log,
   procs |-> kill_ai_applications(<<>>, fault).procs,
   tabs  |-> tabs]

\* lines 319-343
processes_previewed(fault) ==
  [results |->
     [ai_applications |-> preview_processes(<<>>, 1, fault),
      browser_tabs    |-> [chrome |-> <<>>, firefox |-> <<>>, edge |-> <<>>],
      protected_tabs  |-> <<>>],
   log   |-> <<>>,
   procs |-> procs,
   tabs  |-> tabs]

\* the whole method
get_termination_preview(domain, fault) ==
  _preview_browser_tabs(processes_previewed(fault), domain)

(***************************************************************************)
(* The web server (src/app.py): request threads on the one ProcessKiller   *)
(***************************************************************************)
\* the threads that handle requests at the same time
MaxWorkers == 2

Workers == 1..MaxWorkers

\* the routes that write or read the protected domain
Routes == {"/api/preview-termination", "/api/kill-all", "/api/close-tabs-only"}

\* the exam_url of a request
RequestURLs == {url_exam, url_exam_edu}

\* what the operating system does with a process a request thread signals
ServerFates == {"exits", "denied"}

\* a thread that handles no request
IdleThread ==
  [pc |-> "idle", route |-> "", exam_url |-> <<>>, started_with |-> NoneVal, read |-> {},
   family |-> 0, port |-> 0, listed |-> <<>>, st |-> <<>>, pass |-> <<>>, ai |-> <<>>]


(***************************************************************************)
(* The module's globals for monitoring and for the demo mode               *)
(***************************************************************************)
\* how many monitoring threads are started at most
MaxLoops == 3

Loops == 1..MaxLoops

\* the URLs of the demo tabs (app.py 353, 359, 365, 373)
demo_url_chatgpt == <<"h", "t", "t", "p", "s", ":", "/", "/", "c", "h", "a", "t", ".", "o", "p", "e", "n", "a", "i", ".", "c", "o", "m", "/", "c", "h", "a", "t">>

demo_url_claude == <<"h", "t", "t", "p", "s", ":", "/", "/", "c", "l", "a", "u", "d", "e", ".", "a", "i", "/", "c", "h", "a", "t">>

demo_url_exam == <<"h", "t", "t", "p", ":", "/", "/", "l", "o", "c", "a", "l", "h", "o", "s", "t", ":", "5", "0", "0", "0", "/">>

demo_url_gemini == <<"h", "t", "t", "p", "s", ":", "/", "/", "g", "e", "m", "i", "n", "i", ".", "g", "o", "o", "g", "l", "e", ".", "c", "o", "m", "/">>

\* app.py 175, 269: 'localhost:5000'
demo_exam_host == <<"l", "o", "c", "a", "l", "h", "o", "s", "t", ":", "5", "0", "0", "0">>

\* app.py 350-377: the demo tabs enable_demo_mode creates
DemoTabs ==
  [chrome  |-> <<[id |-> "demo1", url |-> demo_url_chatgpt, active |-> FALSE],
                 [id |-> "demo2", url |-> demo_url_claude, active |-> FALSE],
                 [id |-> "demo3", url |-> demo_url_exam, active |-> TRUE]>>,
   firefox |-> <<[id |-> "demo4", url |-> demo_url_gemini, active |-> FALSE]>>,
   edge    |-> <<>>]

\* app.py 322-347: the demo processes enable_demo_mode creates
DemoProcesses == <<"ChatGPT.exe", "Claude-Desktop.exe", "GitHub-Copilot.exe">>

NoDemoTabs == [chrome |-> <<>>, firefox |-> <<>>, edge |-> <<>>]

\* demo_summary for the tabs held
Summary(total, held) ==
  [total_tabs |-> total,
   browsers   |-> [chrome  |-> Len(held.chrome),
                   firefox |-> Len(held.firefox),
                   edge    |-> Len(held.edge)]]

\* app.py 34-43
InitGlobals ==
  /\ monitoring_active = FALSE
  /\ update_thread = NoneVal
  /\ loops = [l \in Loops |-> "unstarted"]
  /\ demo_mode_enabled = FALSE
  /\ demo_ai_processes = <<>>
  /\ demo_browser_tabs = NoDemoTabs
  /\ demo_summary = Summary(0, NoDemoTabs)
(***************************************************************************)
(* Operations: each is one call of a public method by the calling layer,   *)
(* with one outcome of every request it makes on its environment.  The     *)
(* engine is synchronous: a call is made when the previous one has         *)
(* returned and its result has been taken (Return).                        *)
(***************************************************************************)
Idle == Call("idle", <<>>)

\* the processes kill_ai_applications signals: the environment decides the
\* fate of each
Signalled == {pid \in Range(process_iter) : procs[pid] # NoneVal /\ classified[procs[pid]]}

\* the call returns r.results, having left r.procs and r.tabs behind
Returns(call, domain, r) ==
  /\ op' = call
  /\ exam_domain' = domain
  /\ procs' = r.procs
  /\ tabs' = r.tabs
  /\ result' = r.results
  /\ log' = r.log
  /\ UNCHANGED <<endpoint, threads, app_globals>>

\* the call raises: nothing is returned
Raises(call) ==
  /\ op' = [call EXCEPT !.raised = TRUE]
  /\ result' = <<>>
  /\ log' = <<>>
  /\ UNCHANGED <<exam_domain, procs, endpoint, tabs, threads, app_globals>>

Untouched(results) == [results |-> results, log |-> <<>>, procs |-> procs, tabs |-> tabs]

SetExamDomain ==
  /\ op = Idle
  /\ \E exam_url \in ExamURLs :
       IF set_exam_domain(exam_url) = ValueError
         THEN Raises(Call("set_exam_domain", exam_url))
         ELSE Returns(Call("set_exam_domain", exam_url), set_exam_domain(exam_url),
                      Untouched(NoneVal))

\* the caller was shown a preview and has not let go of it
PreviewInHand == op.name = "get_termination_preview" /\ "previewed" \notin DOMAIN op

\* how process_iter behaves in a call: as it did for the preview in hand, the
\* process table being the same
Enumerations == IF PreviewInHand THEN {op.enumeration} ELSE IterFaults

\* the call, with the preview the caller made it with
Holding(call) == IF PreviewInHand THEN call @@ [previewed |-> result] ELSE call

\* on its own, or as the execution of the preview just shown
KillAiApplications ==
  /\ op = Idle \/ PreviewInHand
  /\ \E fate \in [Signalled -> Fates], fault \in Enumerations :
       Returns(Holding(Call("kill_ai_applications", <<>>)), exam_domain,
               kill_ai_applications(fate, fault))

CloseBrowserTabs ==
  /\ op = Idle
  /\ \E preserve_exam_tab \in BOOLEAN, close_fate \in [OpenIds -> CloseFates] :
       Returns(Call("close_browser_tabs", preserve_exam_tab), exam_domain,
               close_browser_tabs(exam_domain, preserve_exam_tab, close_fate))

\* what a caller passes to kill_all_targeted: nothing, a URL, a malformed URL
KillAllURLs == {NoneVal, url_exam, url_bad}

\* a first kill_all_targeted has returned with nothing failed: no entry in
\* `failed`, no error in any family
AllSucceeded ==
  /\ op.name = "kill_all_targeted" /\ ~op.raised
  /\ "first" \notin DOMAIN op
  /\ result.ai_applications.failed = <<>>
  /\ \A f \in Families : result.browser_tabs[f].errors = <<>>

\* the call, with the result of the first call when it is re-invoked
Reinvoking(call) == IF AllSucceeded THEN call @@ [first |-> result] ELSE call

\* set_exam_domain is called before the try block: what it raises, the caller gets.
\* The call is made once, or again with the same URL right after a first call
\* in which nothing failed, the enumeration working as it did then
KillAllTargeted ==
  /\ op = Idle \/ AllSucceeded
  /\ \E exam_url \in (IF AllSucceeded THEN {op.arg} ELSE KillAllURLs),
        fate \in [Signalled -> Fates],
        fault \in (IF AllSucceeded THEN {[raises |-> FALSE, after |-> 0]} ELSE IterFaults),
        close_fate \in [OpenIds -> CloseFates] :
       IF set_exam_domain(exam_url) = ValueError
         THEN Raises(Call("kill_all_targeted", exam_url))
         ELSE Returns(Reinvoking(Call("kill_all_targeted", exam_url)),
                      set_exam_domain(exam_url),
                      kill_all_targeted(set_exam_domain(exam_url), fate, fault, close_fate))

\* once, or a second time in succession
GetTerminationPreview ==
  /\ op = Idle \/ PreviewInHand
  /\ \E fault \in Enumerations :
       Returns(Holding(Call("get_termination_preview", <<>>) @@ [enumeration |-> fault]),
               exam_domain, get_termination_preview(exam_domain, fault))

\* SystemMonitor.get_browser_tabs
GetBrowserTabs ==
  /\ op = Idle
  /\ Returns(Call("get_browser_tabs", <<>>), exam_domain, get_browser_tabs)

\* SystemMonitor.get_running_processes
GetRunningProcesses ==
  /\ op = Idle
  /\ \E order \in MemoryOrders, fault \in IterFaults :
       Returns(Call("get_running_processes", <<>>) @@ [enumeration |-> fault],
               exam_domain, Untouched(get_running_processes(order, fault)))

\* SystemMonitor.get_ai_processes
GetAiProcesses ==
  /\ op = Idle
  /\ \E order \in MemoryOrders, fault \in IterFaults :
       Returns(Call("get_ai_processes", <<>>) @@ [enumeration |-> fault],
               exam_domain, Untouched(get_ai_processes(order, fault)))

\* the caller takes the result of the call
Return ==
  /\ op # Idle
  /\ op' = Idle
  /\ result' = <<>>
  /\ log' = <<>>
  /\ UNCHANGED <<exam_domain, procs, endpoint, tabs, threads, app_globals>>

(***************************************************************************)
(* The environments the engine is constructed in                           *)
(***************************************************************************)
NoBrowser ==
  /\ endpoint = [p \in Ports |-> "refused"]
  /\ tabs = [p \in Ports |-> <<>>]

\* any process table, no browser with remote debugging
InitProcesses ==
  /\ procs \in [Pids -> ProcNames \cup {Absent}]
  /\ NoBrowser

\* the tabs of `all` that `where` puts on port p, in their order
TabsOn(all, where, p) ==
  LET RECURSIVE From(_)
      From(i) == IF i > Len(all) THEN <<>>
                 ELSE IF where[i] = p THEN <<all[i]>> \o From(i + 1)
                 ELSE From(i + 1)
  IN  From(1)

\* one family's three ports in any state, at most MaxTabs tabs spread over its
\* listening ports; no process
InitBrowsers ==
  /\ procs = [p \in Pids |-> Absent]
  /\ \E f \in Families :
     \E status \in [Range(browser_ports[f]) -> {"refused", "http500", "up"}] :
     \E all \in InjSeqs(TabPool, MaxTabs) :
     \E where \in [DOMAIN all -> {p \in DOMAIN status : status[p] = "up"}] :
       /\ endpoint = [p \in Ports |-> IF p \in DOMAIN status THEN status[p] ELSE "refused"]
       /\ tabs = [p \in Ports |-> TabsOn(all, where, p)]

\* an exam in progress: an AI application and a shell running, every family
\* with a browser on its first port, the exam open in chrome and in firefox
InitExamRoom ==
  /\ procs = [p \in Pids |-> IF p = 1 THEN name_cursor ELSE name_bash]
  /\ endpoint = [p \in Ports |->
                   IF \E f \in Families : p = browser_ports[f][1] THEN "up" ELSE "refused"]
  /\ tabs = [p \in Ports |->
               IF p \in {browser_ports.chrome[1], browser_ports.firefox[1]}
                 THEN <<tab_exam, tab_chat>>
               ELSE IF p = browser_ports.edge[1]
                 THEN <<tab_chat>>
               ELSE <<>>]

Init ==
  /\ exam_domain = NoneVal
  /\ InitProcesses \/ InitBrowsers \/ InitExamRoom
  /\ op = Idle
  /\ result = <<>>
  /\ log = <<>>
  /\ threads = [t \in Workers |-> IdleThread]
  /\ InitGlobals

Next ==
  \/ SetExamDomain
  \/ KillAiApplications
  \/ CloseBrowserTabs
  \/ KillAllTargeted
  \/ GetTerminationPreview
  \/ GetBrowserTabs
  \/ GetRunningProcesses
  \/ GetAiProcesses
  \/ Return

Spec == Init /\ [][Next]_vars

(***************************************************************************)
(* The request handlers of src/app.py, one step of a thread at a time.     *)
(* A step holds one access of a thread to what the threads share (a write   *)
(* of exam_domain, a phase on the processes, a request to an endpoint with  *)
(* the test of exam_domain before it) and the thread's own work up to its   *)
(* next access.  No handler takes a lock; demo_mode_enabled is False.       *)
(***************************************************************************)
ServerUnchanged == UNCHANGED <<op, result, log, endpoint, app_globals>>

At(t, pc) == threads[t].pc = pc

Becomes(t, thread) == threads' = [threads EXCEPT ![t] = thread]

\* a thread takes a request; app.py 136-139, 160-161 and 196-197, 258-259 and
\* 291-292: if exam_url: killer.set_exam_domain(exam_url)
Request(t) ==
  /\ At(t, "idle")
  /\ \E route \in Routes, exam_url \in RequestURLs :
       /\ exam_domain' = set_exam_domain(exam_url)
       /\ Becomes(t, [IdleThread EXCEPT !.pc = "call", !.route = route, !.exam_url = exam_url])
  /\ UNCHANGED <<procs, tabs>>
  /\ ServerUnchanged

\* app.py 141-147: preview = preview_termination(), and the response
Preview(t) ==
  /\ At(t, "call")
  /\ threads[t].route = "/api/preview-termination"
  /\ Becomes(t, IdleThread)
  /\ UNCHANGED <<exam_domain, procs, tabs>>
  /\ ServerUnchanged

\* app.py 200: killer.kill_all_targeted(exam_url); killer.py 283-296: the
\* domain is stored again, then ai_results = self.kill_ai_applications()
KillPhase(t) ==
  /\ At(t, "call")
  /\ threads[t].route = "/api/kill-all"
  /\ exam_domain' = set_exam_domain(threads[t].exam_url)
  /\ \E fate \in [Signalled -> ServerFates] :
       LET ai == kill_ai_applications(fate, [raises |-> FALSE, after |-> 0])
       IN  /\ procs' = ai.procs
           /\ Becomes(t, [threads[t] EXCEPT !.pc = "closure", !.ai = ai.results])
  /\ UNCHANGED tabs
  /\ ServerUnchanged

\* the family's ports up to the one that answers 200, all of them if none does
PortsProbed(family) ==
  LET ports == browser_ports[family]
      up == {k \in DOMAIN ports : endpoint[ports[k]] = "up"}
  IN  IF up = {} THEN ports
      ELSE SubSeq(ports, 1, CHOOSE k \in up : \A j \in up : k <= j)

\* killer.py 161-166, 206-210 and 225-227, 235-239: the ports are asked for
\* their list in turn (a refused firefox port leaves an error)
RECURSIVE Probed(_, _, _)
Probed(st, family, ports) ==
  IF ports = <<>> THEN st
  ELSE IF family = "firefox" /\ endpoint[Head(ports)] = "refused"
    THEN Probed(ErrorAdded(Listed(st, Head(ports)), "Firefox debugging error on port",
                           "", "", Head(ports)),
                family, Tail(ports))
  ELSE Probed(Listed(st, Head(ports)), family, Tail(ports))

\* killer.py 137-152: the result of the family the thread is through with
\* joins the results of its pass
Joined(thread) ==
  IF thread.family = 0 THEN FreshPass.results
  ELSE [thread.pass EXCEPT
          ![FamilyOrder[thread.family]] = FamilyResult(thread.st),
          !.total_closed = @ + thread.st.closed,
          !.total_preserved = @ + thread.st.preserved]

\* the thread is in close_browser_tabs and has no entry left to go through
BetweenFamilies(t) ==
  \/ At(t, "call") /\ threads[t].route = "/api/close-tabs-only"    \* app.py 294
  \/ At(t, "closure")                                              \* killer.py 302
  \/ At(t, "tabs") /\ threads[t].listed = <<>>

\* the next family's method is entered: the list of its first port answering
\* 200 is what the thread will go through
ListFamily(t) ==
  /\ BetweenFamilies(t)
  /\ threads[t].family < Len(FamilyOrder)
  /\ LET thread == threads[t]
         family == FamilyOrder[thread.family + 1]
         last == PortsProbed(family)[Len(PortsProbed(family))]
         port == IF endpoint[last] = "up" THEN last ELSE 0
     IN  Becomes(t, [thread EXCEPT
                       !.pc = "tabs", !.family = @ + 1, !.port = port,
                       !.started_with = IF thread.family = 0 THEN exam_domain ELSE @,
                       !.pass = Joined(thread),
                       !.listed = IF port = 0 THEN <<>> ELSE tabs[port],
                       !.st = Probed(FreshResult(<<>>, <<>>), family, PortsProbed(family))])
  /\ UNCHANGED <<exam_domain, procs, tabs>>
  /\ ServerUnchanged

\* what the endpoint does with the thread's close request: it closes the tab,
\* unless another thread has had it closed since the list was given
ServerCloseFate(port, tab) == IF tab \in Range(tabs[port]) THEN "ok" ELSE "notfound"

\* killer.py 168-191, 212-221, 241-264: one turn of `for tab in tabs`, on the
\* next entry of the list the thread was given, with exam_domain as it is now
TabTurn(t) ==
  /\ At(t, "tabs")
  /\ threads[t].listed # <<>>
  /\ LET thread == threads[t]
         family == FamilyOrder[thread.family]
         tab == Head(thread.listed)
         next == [thread EXCEPT !.listed = Tail(@)]
     IN  IF family # "firefox" /\ tab.type # "page"
           THEN /\ Becomes(t, next)
                /\ UNCHANGED tabs
         ELSE IF _is_exam_tab(exam_domain, tab.url)
           THEN /\ Becomes(t, [next EXCEPT !.st.preserved = @ + 1,
                                           !.read = @ \cup {exam_domain}])
                /\ UNCHANGED tabs
         ELSE IF family = "firefox"
           THEN /\ Becomes(t, [next EXCEPT !.st.closed = @ + 1,
                                           !.read = @ \cup {exam_domain}])
                /\ UNCHANGED tabs
         ELSE LET label == IF family = "chrome" THEN "tab" ELSE "Edge tab"
                  closing == close_tab([thread.st EXCEPT !.tabs = tabs], label,
                                       thread.port, tab, ServerCloseFate(thread.port, tab))
              IN  /\ tabs' = closing.tabs
                  /\ Becomes(t, [next EXCEPT !.st = [closing EXCEPT !.tabs = <<>>],
                                             !.read = @ \cup {exam_domain}])
  /\ UNCHANGED <<exam_domain, procs>>
  /\ ServerUnchanged

\* close_browser_tabs returns (and kill_all_targeted, killer.py 305-315);
\* app.py 203-209, 297-303: the event is emitted and the response sent
Respond(t) ==
  /\ BetweenFamilies(t)
  /\ threads[t].family = Len(FamilyOrder)
  /\ Becomes(t, IdleThread)
  /\ UNCHANGED <<exam_domain, procs, tabs>>
  /\ ServerUnchanged

\* an exam in progress, as the server finds it: an AI application running,
\* chrome and edge with remote debugging, the exam open in both
InitServer ==
  /\ exam_domain = NoneVal
  /\ procs = [p \in Pids |-> IF p = 1 THEN name_cursor ELSE Absent]
  /\ endpoint = [p \in Ports |->
                   IF p \in {browser_ports.chrome[1], browser_ports.edge[1]}
                     THEN "up" ELSE "refused"]
  /\ tabs = [p \in Ports |->
               IF p = browser_ports.chrome[1] THEN <<tab_chat, tab_exam>>
               ELSE IF p = browser_ports.edge[1] THEN <<tab_exam>>
               ELSE <<>>]
  /\ op = Idle
  /\ result = <<>>
  /\ log = <<>>
  /\ threads = [t \in Workers |-> IdleThread]
  /\ InitGlobals

NextServer ==
  \E t \in Workers :
     \/ Request(t)
     \/ Preview(t)
     \/ KillPhase(t)
     \/ ListFamily(t)
     \/ TabTurn(t)
     \/ Respond(t)

SpecServer == InitServer /\ [][NextServer]_vars

(***************************************************************************)
(* src/app.py: the monitoring events and the demo mode, one handler at a   *)
(* time; the steps of the monitoring threads interleave with the handlers. *)
(***************************************************************************)
AppUnchanged == UNCHANGED <<endpoint, threads>>

MonitoringUnchanged ==
  UNCHANGED <<exam_domain, procs, tabs, op, result, log,
              demo_mode_enabled, demo_ai_processes, demo_browser_tabs, demo_summary>>

DemoUnchanged == UNCHANGED <<monitoring_active, update_thread, loops>>

\* the monitoring threads not started yet
Unstarted == {l \in Loops : loops[l] = "unstarted"}

\* app.py 439-449: handle_start_monitoring
StartMonitoring ==
  /\ Unstarted # {}
  /\ IF ~monitoring_active
       THEN LET l == CHOOSE l \in Unstarted : \A k \in Unstarted : l <= k
            IN  /\ monitoring_active' = TRUE
                /\ update_thread' = l
                /\ loops' = [loops EXCEPT ![l] = "test"]         \* update_thread.start()
       ELSE UNCHANGED <<monitoring_active, update_thread, loops>>
  /\ MonitoringUnchanged
  /\ AppUnchanged

\* app.py 451-457: handle_stop_monitoring
StopMonitoring ==
  /\ monitoring_active' = FALSE
  /\ UNCHANGED <<update_thread, loops>>
  /\ MonitoringUnchanged
  /\ AppUnchanged

\* app.py 473: while monitoring_active
LoopTests(l) ==
  /\ loops[l] = "test"
  /\ loops' = [loops EXCEPT ![l] = IF monitoring_active THEN "update" ELSE "ended"]
  /\ UNCHANGED <<monitoring_active, update_thread>>
  /\ MonitoringUnchanged
  /\ AppUnchanged

\* app.py 474-480: the update is emitted (or the error logged); the thread sleeps
LoopUpdates(l) ==
  /\ loops[l] = "update"
  /\ loops' = [loops EXCEPT ![l] = "sleep"]
  /\ UNCHANGED <<monitoring_active, update_thread>>
  /\ MonitoringUnchanged
  /\ AppUnchanged

\* time.sleep(5) (or time.sleep(10)) returns
LoopWakes(l) ==
  /\ loops[l] = "sleep"
  /\ loops' = [loops EXCEPT ![l] = "test"]
  /\ UNCHANGED <<monitoring_active, update_thread>>
  /\ MonitoringUnchanged
  /\ AppUnchanged

\* app.py 314-390: enable_demo_mode
EnableDemoMode ==
  /\ op = Idle
  /\ demo_mode_enabled' = TRUE
  /\ demo_ai_processes' = DemoProcesses
  /\ demo_browser_tabs' = DemoTabs
  /\ demo_summary' = [total_tabs |-> 4,
                      browsers |-> [chrome |-> 3, firefox |-> 1, edge |-> 0]]
  /\ op' = Call("/api/demo-mode", <<>>)
  /\ result' = [demo_processes |-> DemoProcesses, demo_tabs |-> DemoTabs]
  /\ UNCHANGED <<exam_domain, procs, tabs, log>>
  /\ DemoUnchanged
  /\ AppUnchanged

\* app.py 392-408: disable_demo_mode
DisableDemoMode ==
  /\ op = Idle
  /\ demo_mode_enabled' = FALSE
  /\ demo_ai_processes' = <<>>
  /\ demo_browser_tabs' = NoDemoTabs
  /\ demo_summary' = [total_tabs |-> 0,
                      browsers |-> [chrome |-> 0, firefox |-> 0, edge |-> 0]]
  /\ op' = Call("/api/disable-demo-mode", <<>>)
  /\ result' = <<>>
  /\ UNCHANGED <<exam_domain, procs, tabs, log>>
  /\ DemoUnchanged
  /\ AppUnchanged

\* a faulty variant: every tab counts as closed
demo_closed_all(summary) == summary.total_tabs

\* app.py 167, 264: demo_summary['total_tabs'] - 1  # Keep exam tab
demo_closed_count(summary) == summary.total_tabs - 1

\* app.py 175, 269: [tab for tab in tabs if 'localhost:5000' in tab.get('url', '')]
browser_exam_tabs(held) == SelectSeq(held, LAMBDA tab : Contains(tab.url, demo_exam_host))

\* app.py 173-177, 267-271: each family keeps its exam tabs
exam_tabs_kept(held) == [f \in DOMAIN held |-> browser_exam_tabs(held[f])]

\* len(exam_tabs)
tabs_held(held) == Len(held.chrome) + Len(held.firefox) + Len(held.edge)

\* app.py 173-187, 267-281: the tabs and the summary the request leaves
DemoTabsCleared ==
  /\ demo_browser_tabs' = exam_tabs_kept(demo_browser_tabs)
  /\ demo_summary' = Summary(tabs_held(exam_tabs_kept(demo_browser_tabs)),
                             exam_tabs_kept(demo_browser_tabs))

\* app.py 189: [{'name': f'Demo AI Process {i}'} for i in range(killed_ai_count)]
demo_killed(count) == [i \in 1..count |-> [name |-> <<"Demo AI Process", i - 1>>]]

\* app.py 156-217: kill_all
KillAllRequest ==
  /\ op = Idle
  /\ \E exam_url \in RequestURLs :
       /\ op' = Call("/api/kill-all", exam_url)
       /\ IF demo_mode_enabled
            THEN /\ demo_ai_processes' = <<>>
                 /\ DemoTabsCleared
                 /\ result' =
                      [ai_applications |-> [killed |-> demo_killed(Len(demo_ai_processes))],
                       browser_tabs    |-> [total_closed |-> demo_closed_count(demo_summary)],
                       success         |-> TRUE]
                 /\ UNCHANGED <<exam_domain, procs, tabs, log>>
            ELSE /\ \E fate \in [Signalled -> Fates], close_fate \in [OpenIds -> CloseFates] :
                      LET r == kill_all_targeted(set_exam_domain(exam_url), fate,
                                                 [raises |-> FALSE, after |-> 0], close_fate)
                      IN  /\ exam_domain' = set_exam_domain(exam_url)
                          /\ procs' = r.procs
                          /\ tabs' = r.tabs
                          /\ result' = r.results
                          /\ log' = r.log
                 /\ UNCHANGED <<demo_ai_processes, demo_browser_tabs, demo_summary>>
  /\ UNCHANGED demo_mode_enabled
  /\ DemoUnchanged
  /\ AppUnchanged

\* app.py 254-311: close_tabs_only
CloseTabsOnlyRequest ==
  /\ op = Idle
  /\ \E exam_url \in RequestURLs :
       /\ op' = Call("/api/close-tabs-only", exam_url)
       /\ IF demo_mode_enabled
            THEN /\ DemoTabsCleared
                 /\ result' =
                      [chrome  |-> [closed |-> demo_closed_count(demo_summary),
                                    preserved |-> 1, errors |-> <<>>],
                       firefox |-> [closed |-> 0, preserved |-> 0, errors |-> <<>>],
                       edge    |-> [closed |-> 0, preserved |-> 0, errors |-> <<>>],
                       total_closed    |-> demo_closed_count(demo_summary),
                       total_preserved |-> 1]
                 /\ UNCHANGED <<exam_domain, procs, tabs, log>>
            ELSE /\ \E close_fate \in [OpenIds -> CloseFates] :
                      LET r == close_browser_tabs(set_exam_domain(exam_url), TRUE, close_fate)
                      IN  /\ exam_domain' = set_exam_domain(exam_url)
                          /\ procs' = r.procs
                          /\ tabs' = r.tabs
                          /\ result' = r.results
                          /\ log' = r.log
                 /\ UNCHANGED <<demo_browser_tabs, demo_summary>>
  /\ UNCHANGED <<demo_mode_enabled, demo_ai_processes>>
  /\ DemoUnchanged
  /\ AppUnchanged

\* the server as it starts: an AI application running, no browser with
\* remote debugging
InitApp ==
  /\ exam_domain = NoneVal
  /\ procs = [p \in Pids |-> IF p = 1 THEN name_cursor ELSE Absent]
  /\ NoBrowser
  /\ op = Idle
  /\ result = <<>>
  /\ log = <<>>
  /\ threads = [t \in Workers |-> IdleThread]
  /\ InitGlobals

NextApp ==
  \/ StartMonitoring
  \/ StopMonitoring
  \/ \E l \in Loops : LoopTests(l) \/ LoopUpdates(l) \/ LoopWakes(l)
  \/ EnableDemoMode
  \/ DisableDemoMode
  \/ KillAllRequest
  \/ CloseTabsOnlyRequest
  \/ Return

SpecApp == InitApp /\ [][NextApp]_vars

(***************************************************************************)
(* Reading the last call and its result                                    *)
(***************************************************************************)
\* kill_ai_applications has run and returned (on its own or in kill_all_targeted)
KillRan == op.name \in {"kill_ai_applications", "kill_all_targeted"} /\ ~op.raised

\* what it returned
ai_results == IF op.name = "kill_all_targeted" THEN result.ai_applications ELSE result

\* close_browser_tabs has run and returned (on its own or in kill_all_targeted)
ClosureRan == op.name \in {"close_browser_tabs", "kill_all_targeted"} /\ ~op.raised

\* it ran with preserve_exam_tab = True
ProtectingPass ==
  /\ ClosureRan
  /\ op.name = "close_browser_tabs" => op.arg = TRUE

\* what it returned
tab_results == IF op.name = "kill_all_targeted" THEN result.browser_tabs ELSE result

PreviewRan == op.name = "get_termination_preview" /\ ~op.raised

\* the authority (host[:port]) of a URL
Authority(url) == urlparse_netloc[url]

\* the family's first port whose tab list answers 200, or 0
ActivePort(f) ==
  LET up == {k \in DOMAIN browser_ports[f] : endpoint[browser_ports[f][k]] = "up"}
  IN  IF up = {} THEN 0
      ELSE browser_ports[f][CHOOSE k \in up : \A j \in up : k <= j]

\* the tabs the family lists: its active endpoint's pages, or all its entries
\* for firefox
ListedTabs(f) ==
  IF ActivePort(f) = 0 THEN <<>>
  ELSE IF f = "firefox" THEN tabs[ActivePort(f)]
  ELSE SelectSeq(tabs[ActivePort(f)], LAMBDA t : t.type = "page")

\* how many of the tabs of a list sit on the authority d
OnAuthority(listed, d) == Cardinality({i \in DOMAIN listed : Authority(listed[i].url) = d})

(***************************************************************************)
(* C1: in a closure pass with preserve_exam_tab = True (kill_all_targeted's *)
(* included), while an exam domain is set, no close request is issued for  *)
(* a tab whose authority is the exam domain, such a tab stays open, and no *)
(* family counts it in `closed`, whatever happens to the other tabs.       *)
(***************************************************************************)
C1_Step ==
  (ProtectingPass' /\ Truthy(exam_domain')) =>
     /\ \A i \in DOMAIN log' :
          log'[i].ev = "close" =>
            \A t \in Range(tabs[log'[i].port]) :
               t.id = log'[i].id => Authority(t.url) # exam_domain'
     /\ \A p \in Ports : \A t \in Range(tabs[p]) :
          Authority(t.url) = exam_domain' => t \in Range(tabs'[p])
     /\ \A f \in Families :
          tab_results'[f].closed
            <= Len(ListedTabs(f)) - OnAuthority(ListedTabs(f), exam_domain')

C1_ExamTabNeverClosed == [][C1_Step]_vars

\* the exam tab is preserved in a pass in which the close of another tab fails
C1_Witness ==
  /\ ProtectingPass
  /\ Truthy(exam_domain)
  /\ tab_results.chrome.preserved = 1
  /\ Len(tab_results.chrome.errors) = 1

(***************************************************************************)
(* C2: after a closure pass with preserve_exam_tab = True, each family's   *)
(* `preserved` is the number of the tabs it listed whose authority is the  *)
(* protected domain (none when no domain is stored), and total_preserved   *)
(* is the sum of the three.                                                *)
(***************************************************************************)
ProtectedCount(f, domain) ==
  IF Truthy(domain) THEN OnAuthority(ListedTabs(f), domain) ELSE 0

C2_Step ==
  ProtectingPass' =>
     /\ \A f \in Families :
          tab_results'[f].preserved = ProtectedCount(f, exam_domain')
     /\ tab_results'.total_preserved =
          tab_results'.chrome.preserved + tab_results'.firefox.preserved
            + tab_results'.edge.preserved

C3_UnsetProtectsNothing ==
  ~Truthy(exam_domain) =>
     /\ \A url \in TabURLs : ~_is_exam_tab(exam_domain, url)
     /\ ClosureRan =>
          /\ \A f \in Families : tab_results[f].preserved = 0
          /\ tab_results.total_preserved = 0
     /\ PreviewRan =>
          \A f \in Families : \A i \in DOMAIN result.browser_tabs[f] :
             ~result.browser_tabs[f][i].will_be_preserved

\* with no domain stored, a protecting pass closes the exam's page
C3_Witness ==
  /\ exam_domain = NoneVal
  /\ ProtectingPass
  /\ \E i \in DOMAIN log : log[i].ev = "close" /\ log[i].id = tab_exam.id
  /\ tab_results.total_closed >= 1

(***************************************************************************)
(* C4: after set_exam_domain(U) has returned for a non-empty U,            *)
(* _is_exam_tab(U) is true.                                                *)
(***************************************************************************)
SetReturned == op.name = "set_exam_domain" /\ ~op.raised /\ Truthy(op.arg)

C4_SetThenQuery == SetReturned => _is_exam_tab(exam_domain, op.arg)

(***************************************************************************)
(* C5: after set_exam_domain(U), _is_exam_tab(T) is true exactly for the   *)
(* tab URLs T whose authority equals the authority of U.                   *)
(***************************************************************************)
C5_ExactAuthority ==
  SetReturned =>
     \A url \in TabURLs :
        _is_exam_tab(exam_domain, url) <=> Authority(url) = Authority(op.arg)

(***************************************************************************)
(* C6: kill_all_targeted returns success = true exactly when the kill      *)
(* phase recorded no failure and every family's errors list is empty.      *)
(***************************************************************************)
C6_SuccessIsConjunction ==
  (op.name = "kill_all_targeted" /\ ~op.raised) =>
     (result.success <=>
        /\ result.ai_applications.failed = <<>>
        /\ \A f \in Families : result.browser_tabs[f].errors = <<>>)

(***************************************************************************)
(* C7: kill_ai_applications signals only enumerated processes the          *)
(* classifier accepts, every entry of `killed` and every entry of `failed` *)
(* that bears a pid is such a process, and when no enumerated process is   *)
(* accepted, killed = [] and ...                                           *)
(***************************************************************************)
\* the process table holds this pid under a name the classifier accepts
IsAIProcess(pid) ==
  /\ pid \in Pids
  /\ procs[pid] \notin {Absent, NoneVal}
  /\ classified[procs[pid]]

BearsPid(entry) == "pid" \in DOMAIN entry

C7_OnlyAIProcesses ==
  /\ \A i \in DOMAIN log' :
       log'[i].ev \in {"terminate", "kill"} => IsAIProcess(log'[i].pid)
  /\ \A i \in DOMAIN ai_results'.killed :
       /\ IsAIProcess(ai_results'.killed[i].pid)
       /\ ai_results'.killed[i].name = procs[ai_results'.killed[i].pid]
  /\ \A i \in DOMAIN ai_results'.failed :
       BearsPid(ai_results'.failed[i]) =>
         /\ IsAIProcess(ai_results'.failed[i].pid)
         /\ ai_results'.failed[i].name = procs[ai_results'.failed[i].pid]

\* ... failed = []: the claim as it stands
C7_Original_Step ==
  KillRan' =>
     /\ C7_OnlyAIProcesses
     /\ (\A pid \in Pids : ~IsAIProcess(pid)) =>
          ai_results'.killed = <<>> /\ ai_results'.failed = <<>>

C7_Step ==
  KillRan' =>
     /\ C7_OnlyAIProcesses
     /\ (\A pid \in Pids : ~IsAIProcess(pid)) =>
          /\ ai_results'.killed = <<>>
          /\ \/ ai_results'.failed = <<>>
             \/ Len(ai_results'.failed) = 1 /\ ~BearsPid(ai_results'.failed[1])

KilledPids == {ai_results.killed[i].pid : i \in DOMAIN ai_results.killed}

FailedPids ==
  {ai_results.failed[i].pid :
     i \in {j \in DOMAIN ai_results.failed : BearsPid(ai_results.failed[j])}}

C8_KilledFailedDisjoint == KillRan => KilledPids \cap FailedPids = {}

\* one process was force-killed, the forced kill of another was denied
C8_Witness ==
  /\ KillRan
  /\ \E i \in DOMAIN ai_results.killed : ai_results.killed[i].method = "force_kill"
  /\ \E i \in DOMAIN ai_results.failed :
        /\ BearsPid(ai_results.failed[i])
        /\ ai_results.failed[i].error = "AccessDenied"
        /\ \E j \in DOMAIN log : log[j] = Event("kill", ai_results.failed[i].pid, 0, "")

(***************************************************************************)
(* C9: termination escalates in order.  terminate() comes first and the    *)
(* bounded wait follows it; kill() is called only when that wait timed     *)
(* out.  A process that exits within the wait is in `killed` with method   *)
(* 'terminate' and is never sent kill(); a process recorded with method    *)
(* 'force_kill' was sent terminate() before.                               *)
(***************************************************************************)
Sent(ev, pid) == \E i \in DOMAIN log : log[i] = Event(ev, pid, 0, "")

RecordedKilled(pid, method) ==
  \E i \in DOMAIN ai_results.killed :
     ai_results.killed[i].pid = pid /\ ai_results.killed[i].method = method

C9_EscalationInOrder ==
  KillRan =>
     /\ \A i \in DOMAIN log :
          /\ log[i].ev = "wait" =>
               i > 1 /\ log[i - 1] = Event("terminate", log[i].pid, 0, "")
          /\ log[i].ev = "TimeoutExpired" =>
               i > 1 /\ log[i - 1] = Event("wait", log[i].pid, 0, "")
          /\ log[i].ev = "kill" =>
               i > 1 /\ log[i - 1] = Event("TimeoutExpired", log[i].pid, 0, "")
     /\ \A pid \in Pids :
          /\ (Sent("wait", pid) /\ ~Sent("TimeoutExpired", pid)) =>
               RecordedKilled(pid, "terminate") /\ ~Sent("kill", pid)
          /\ RecordedKilled(pid, "terminate") => ~Sent("kill", pid)
          /\ RecordedKilled(pid, "force_kill") =>
               \E i, j \in DOMAIN log :
                  /\ i < j
                  /\ log[i] = Event("terminate", pid, 0, "")
                  /\ log[j] = Event("kill", pid, 0, "")

\* one process exited on terminate(), another had to be force-killed
C9_Witness ==
  /\ KillRan
  /\ \E pid \in Pids : RecordedKilled(pid, "terminate")
  /\ \E pid \in Pids : RecordedKilled(pid, "force_kill")

(***************************************************************************)
(* C10: a process that vanishes by itself after terminate() was sent to it *)
(* (during the wait, or between the timeout of the wait and kill()) counts *)
(* as a success: it is never recorded in `failed`.                         *)
(***************************************************************************)
C10_VanishedIsSuccess ==
  KillRan =>
     \A i \in DOMAIN ai_results.failed :
        (BearsPid(ai_results.failed[i]) /\ Sent("wait", ai_results.failed[i].pid)) =>
           ai_results.failed[i].error # "NoSuchProcess"

(***************************************************************************)
(* C11: an AI application that disappears between its enumeration and the *)
(* first terminate() is left out of the result: it is neither in `killed`  *)
(* nor in `failed`.                                                        *)
(***************************************************************************)
\* terminate() was called on the process, wait() never was, and it is gone
VanishedBeforeTerminate(pid) ==
  Sent("terminate", pid) /\ ~Sent("wait", pid) /\ procs[pid] = Absent

C11_VanishedIsOmitted ==
  KillRan =>
     \A pid \in Pids :
        VanishedBeforeTerminate(pid) => pid \notin KilledPids \cup FailedPids

(***************************************************************************)
(* C12: a termination that fails (terminate() denied, or kill() failing    *)
(* after the wait timed out) makes exactly one entry of `failed`, with the *)
(* pid, the name and the error, and does not keep the AI applications      *)
(* enumerated after it from being attempted: every AI application the      *)
(* enumeration yields is attempted, and is in `killed` or in `failed`      *)
(* exactly once, or in neither.                                            *)
(***************************************************************************)
\* how many entries of a list bear this pid
EntriesOf(list, pid) ==
  Cardinality({i \in DOMAIN list : BearsPid(list[i]) /\ list[i].pid = pid})

\* the enumeration was cut short: the outer except clause left its entry
EnumerationFaulted(failed) == \E i \in DOMAIN failed : ~BearsPid(failed[i])

C12_Step ==
  KillRan' =>
     /\ \A pid \in Pids :
          LET k == EntriesOf(ai_results'.killed, pid)
              f == EntriesOf(ai_results'.failed, pid)
              attempted == \E i \in DOMAIN log' : log'[i] = Event("terminate", pid, 0, "")
          IN  /\ k + f <= 1
              /\ attempted => k + f = 1
              /\ (attempted /\ procs'[pid] # Absent) => f = 1
              \* whatever became of the others, those before it were attempted
              /\ attempted =>
                   \A q \in Pids : (q < pid /\ IsAIProcess(q)) =>
                      \E i \in DOMAIN log' : log'[i] = Event("terminate", q, 0, "")
              /\ (IsAIProcess(pid) /\ ~EnumerationFaulted(ai_results'.failed)) => attempted
     /\ \A i \in DOMAIN ai_results'.failed :
          BearsPid(ai_results'.failed[i]) =>
            /\ ai_results'.failed[i].name = procs[ai_results'.failed[i].pid]
            /\ ai_results'.failed[i].error \in {"AccessDenied", "NoSuchProcess"}

C12_FailureIsIsolated == [][C12_Step]_vars

\* the first AI application could not be terminated, the second was
C12_Witness ==
  /\ KillRan
  /\ \E i \in DOMAIN ai_results.failed, j \in DOMAIN ai_results.killed :
        /\ BearsPid(ai_results.failed[i])
        /\ ai_results.failed[i].error = "AccessDenied"
        /\ ai_results.failed[i].pid < ai_results.killed[j].pid

(***************************************************************************)
(* C13: a family none of whose ports answers the tab list with 200         *)
(* (refused, timed out, or another status on all three) is reported with   *)
(* closed = 0, preserved = 0 and errors = []: no browser is no error.      *)
(***************************************************************************)
C13_AbsentBrowserIsNoError ==
  ClosureRan =>
     \A f \in Families :
        ActivePort(f) = 0 =>
           /\ tab_results[f].closed = 0
           /\ tab_results[f].preserved = 0
           /\ tab_results[f].errors = <<>>

(***************************************************************************)
(* C14: in one operation, each family's ports are probed in the order of   *)
(* the table and each at most once; a port that fails or answers another   *)
(* status than 200 is followed by the next; after the first port that      *)
(* answers 200 no further port is probed, and the family's counts and      *)
(* close requests concern the tabs of that port alone.                     *)
(***************************************************************************)
\* an operation that probes the browsers has returned
ProbingRan == ClosureRan \/ PreviewRan \/ op.name = "get_browser_tabs"

\* the ports of the family a /json/list request went to, in the order of the requests
ProbedPorts(made, f) ==
  LET reqs == SelectSeq(made, LAMBDA e : e.ev = "list" /\ e.port \in Range(browser_ports[f]))
  IN  [i \in DOMAIN reqs |-> reqs[i].port]

\* the table's ports up to the first that answers 200, all of them if none does
PortsUpToActive(f) ==
  LET up == {k \in DOMAIN browser_ports[f] : endpoint[browser_ports[f][k]] = "up"}
  IN  IF up = {} THEN browser_ports[f]
      ELSE SubSeq(browser_ports[f], 1, CHOOSE k \in up : \A j \in up : k <= j)

\* the close requests sent to the family's ports
CloseRequests(made, f) ==
  {i \in DOMAIN made : made[i].ev = "close" /\ made[i].port \in Range(browser_ports[f])}

C14_Step ==
  ProbingRan' =>
     \A f \in Families :
        /\ ProbedPorts(log', f) = PortsUpToActive(f)
        /\ \A i \in CloseRequests(log', f) : log'[i].port = ActivePort(f)
        /\ \A p \in Range(browser_ports[f]) : p # ActivePort(f) => tabs'[p] = tabs[p]
        /\ ClosureRan' =>
             tab_results'[f].closed + tab_results'[f].preserved
                + (IF f = "firefox" THEN 0 ELSE Len(tab_results'[f].errors))
               = Len(ListedTabs(f))
        /\ PreviewRan' =>
             /\ Len(result'.browser_tabs[f]) = Len(ListedTabs(f))
             /\ \A i \in DOMAIN result'.browser_tabs[f] :
                  result'.browser_tabs[f][i].url = ListedTabs(f)[i].url
        /\ (op'.name = "get_browser_tabs" /\ f \in DOMAIN result') =>
             /\ Len(result'[f]) = Len(ListedTabs(f))
             /\ \A i \in DOMAIN result'[f] : result'[f][i].port = ActivePort(f)

CloseRequestsFor(made, port, id) ==
  {i \in DOMAIN made : made[i] = Event("close", 0, port, id)}

\* the family's errors that report a close that failed
CloseErrors(errors) ==
  {i \in DOMAIN errors : errors[i].text \in {"Failed to close", "Error closing"}}

C15_Step ==
  ClosureRan' =>
     /\ \A f \in {"chrome", "edge"} :
          \* every close request ends in closed or in one error, never in both
          /\ tab_results'[f].closed + Cardinality(CloseErrors(tab_results'[f].errors))
               = Cardinality(CloseRequests(log', f))
          /\ Len(tab_results'[f].errors) = Cardinality(CloseErrors(tab_results'[f].errors))
          \* a tab that is still open after its close request is not in closed
          /\ tab_results'[f].closed
               <= Cardinality({i \in DOMAIN ListedTabs(f) :
                                 ListedTabs(f)[i] \notin Range(tabs'[ActivePort(f)])})
          \* and the other tabs had their request all the same
          /\ \A i \in DOMAIN ListedTabs(f) :
               \/ /\ op'.name = "close_browser_tabs" => op'.arg
                  /\ _is_exam_tab(exam_domain', ListedTabs(f)[i].url)
               \/ Cardinality(CloseRequestsFor(log', ActivePort(f), ListedTabs(f)[i].id)) = 1
     /\ \A f \in Families :
          \E i \in DOMAIN log' : log'[i] = Event("list", 0, browser_ports[f][1], "")
     /\ tab_results'.total_closed =
          tab_results'.chrome.closed + tab_results'.firefox.closed + tab_results'.edge.closed

C15_CloseFailureIsIsolated == [][C15_Step]_vars

\* chrome's first tab could not be closed, its second was; so was edge's
C15_Witness ==
  /\ ClosureRan
  /\ Len(tab_results.chrome.errors) = 1
  /\ tab_results.chrome.errors[1].about \in {tab_exam.id, tab_exam.title}
  /\ tab_results.chrome.closed = 1
  /\ tab_results.edge.closed = 1
  /\ tab_results.total_closed >= 2

(***************************************************************************)
(* C16: in every family each listed tab that is not preserved has a close  *)
(* request made for it, and a tab is counted in closed only after its      *)
(* close request was made (for chrome and edge: answered with 200).        *)
(***************************************************************************)
C16_Step ==
  ClosureRan' =>
     \A f \in Families :
        /\ tab_results'[f].closed <= Cardinality(CloseRequests(log', f))
        /\ \A i \in DOMAIN ListedTabs(f) :
             \/ /\ op'.name = "close_browser_tabs" => op'.arg
                /\ _is_exam_tab(exam_domain', ListedTabs(f)[i].url)
             \/ CloseRequestsFor(log', ActivePort(f), ListedTabs(f)[i].id) # {}
        /\ f # "firefox" =>
             tab_results'[f].closed
               <= Cardinality({i \in DOMAIN ListedTabs(f) :
                                 ListedTabs(f)[i] \notin Range(tabs'[ActivePort(f)])})

C16_ClosedMeansCloseRequested == [][C16_Step]_vars

(***************************************************************************)
(* C17: for chrome and edge an endpoint entry whose type is not 'page' is  *)
(* never sent a close request, never counted in closed, preserved or       *)
(* errors, and never shown by the preview or by the monitor's tab list;    *)
(* firefox entries are not filtered by type.                               *)
(***************************************************************************)
\* the entries of the family's active port, whatever their type
ActiveEntries(f) == IF ActivePort(f) = 0 THEN <<>> ELSE tabs[ActivePort(f)]

Pages(entries) == SelectSeq(entries, LAMBDA t : t.type = "page")

\* what an operation shows of a family, by id for chrome and edge, by url for firefox
C17_Shown(f, entries) ==
  /\ Len(entries) = Len(IF f = "firefox" THEN ActiveEntries(f) ELSE Pages(ActiveEntries(f)))
  /\ \A i \in DOMAIN entries :
       IF f = "firefox" THEN entries[i].url = ActiveEntries(f)[i].url
       ELSE entries[i].id = Pages(ActiveEntries(f))[i].id

C17_Step ==
  /\ ClosureRan' =>
       /\ \A f \in {"chrome", "edge"} :
            /\ \A p \in Range(browser_ports[f]) : \A t \in Range(tabs[p]) :
                 t.type # "page" =>
                    /\ CloseRequestsFor(log', p, t.id) = {}
                    /\ t \in Range(tabs'[p])
            /\ tab_results'[f].closed + tab_results'[f].preserved
                 + Len(tab_results'[f].errors) = Len(Pages(ActiveEntries(f)))
       /\ tab_results'.firefox.closed + tab_results'.firefox.preserved
            = Len(ActiveEntries("firefox"))
  /\ PreviewRan' => \A f \in Families : C17_Shown(f, result'.browser_tabs[f])
  /\ op'.name = "get_browser_tabs" =>
       \A f \in Families :
          C17_Shown(f, IF f \in DOMAIN result' THEN result'[f] ELSE <<>>)

C17_OnlyPagesForChromium == [][C17_Step]_vars

\* chrome's page was closed, the service worker listed with it is there still
C17_Witness ==
  /\ ClosureRan
  /\ tab_results.chrome.closed = 1
  /\ tab_results.chrome.preserved = 0
  /\ tab_results.chrome.errors = <<>>
  /\ ActivePort("chrome") # 0
  /\ tabs[ActivePort("chrome")] = <<tab_worker>>

(***************************************************************************)
(* C18: get_termination_preview has no side effect: it sends no terminate  *)
(* or kill to any process and no close request for any tab, and the exam   *)
(* domain, the running processes and the open tabs are after the call what *)
(* they were before it.                                                    *)
(***************************************************************************)
C18_Step ==
  PreviewRan' =>
     /\ \A i \in DOMAIN log' : log'[i].ev \notin {"terminate", "kill", "close"}
     /\ exam_domain' = exam_domain
     /\ procs' = procs
     /\ tabs' = tabs

C18_PreviewHasNoSideEffect == [][C18_Step]_vars

\* the preview listed an AI application and two chrome tabs, and all are there
C18_Witness ==
  /\ PreviewRan
  /\ \E i \in DOMAIN result.ai_applications :
        procs[result.ai_applications[i].pid] = result.ai_applications[i].name
  /\ Len(result.browser_tabs.chrome) = 2
  /\ Len(tabs[browser_ports.chrome[1]]) = 2

(***************************************************************************)
(* C19: two calls of get_termination_preview in succession, with no change *)
(* to the processes, tabs, endpoints or exam domain in between, give equal *)
(* AI-application lists and the same will_be_preserved flag for every tab  *)
(* of every family.                                                        *)
(***************************************************************************)
\* the will_be_preserved flags of a preview's entries, family by family
Flags(preview) ==
  [f \in Families |->
     [i \in DOMAIN preview.browser_tabs[f] |-> preview.browser_tabs[f][i].will_be_preserved]]

\* the second of two calls in succession has returned
SecondPreviewRan == PreviewRan /\ "previewed" \in DOMAIN op

C19_PreviewIsIdempotent ==
  SecondPreviewRan =>
     /\ result.ai_applications = op.previewed.ai_applications
     /\ Flags(result) = Flags(op.previewed)

\* both previews list the AI application and flag the exam's tab in chrome
C19_Witness ==
  /\ SecondPreviewRan
  /\ Len(result.ai_applications) = 1
  /\ Flags(result).chrome = <<TRUE, FALSE>>
  /\ Flags(op.previewed).chrome = <<TRUE, FALSE>>

(***************************************************************************)
(* C20: preview and execution agree on the processes: with no change to    *)
(* the process table in between, the pids get_termination_preview lists in *)
(* ai_applications are the pids kill_ai_applications attempts to           *)
(* terminate, which are the pids it reports in killed or failed.           *)
(***************************************************************************)
\* kill_ai_applications has returned, called with a preview in hand
PreviewedKillRan == op.name = "kill_ai_applications" /\ "previewed" \in DOMAIN op

PreviewedPids ==
  {op.previewed.ai_applications[i].pid : i \in DOMAIN op.previewed.ai_applications}

AttemptedPids == {log[i].pid : i \in {j \in DOMAIN log : log[j].ev = "terminate"}}

C20_PreviewMatchesExecution ==
  PreviewedKillRan =>
     /\ PreviewedPids = AttemptedPids
     /\ PreviewedPids = KilledPids \cup FailedPids

\* two AI applications were previewed: one was then killed, one was denied
C20_Witness ==
  /\ PreviewedKillRan
  /\ Cardinality(PreviewedPids) = 2
  /\ KilledPids # {}
  /\ FailedPids # {}

(***************************************************************************)
(* C21: for every family and every tab, get_termination_preview marks the  *)
(* tab will_be_preserved exactly when close_browser_tabs(True), run in the *)
(* same state, would preserve it: count it in preserved and make no close  *)
(* request for it.                                                         *)
(***************************************************************************)
\* the entries of a preview's family that carry this flag
Flagged(entries, flag) == {i \in DOMAIN entries : entries[i].will_be_preserved = flag}

\* the preview's flags against a closure pass made in the same state
C21_Agrees(preview, pass) ==
  \A f \in Families :
     /\ Cardinality(Flagged(preview.browser_tabs[f], TRUE)) = pass.results[f].preserved
     /\ f # "firefox" =>
          \A i \in DOMAIN preview.browser_tabs[f] :
             preview.browser_tabs[f][i].will_be_preserved
               <=> CloseRequestsFor(pass.log, ActivePort(f), preview.browser_tabs[f][i].id) = {}
     /\ f = "firefox" =>
          Cardinality(Flagged(preview.browser_tabs[f], FALSE)) = pass.results[f].closed

C21_PreviewMatchesClosure ==
  PreviewRan =>
     \A close_fate \in [OpenIds -> CloseFates] :
        C21_Agrees(result, close_browser_tabs(exam_domain, TRUE, close_fate))

\* the exam's tab is marked, the chat's is not, in a first preview
C21_Witness ==
  /\ PreviewRan
  /\ "previewed" \notin DOMAIN op
  /\ Truthy(exam_domain)
  /\ Len(result.browser_tabs.chrome) = 2
  /\ result.browser_tabs.chrome[1].url = url_exam_result
  /\ result.browser_tabs.chrome[1].will_be_preserved
  /\ result.browser_tabs.chrome[2].url = url_chat
  /\ ~result.browser_tabs.chrome[2].will_be_preserved

(***************************************************************************)
(* C22: _is_ai_application(N) depends on N alone and is true exactly when  *)
(* N in lower case is an entry of the executable-name table or contains an *)
(* entry of the keyword table; either match is enough.                     *)
(***************************************************************************)
InExecutableTable(n) == \E i \in DOMAIN ai_applications : lower(ai_applications[i]) = n

ContainsKeyword(n) == \E k \in DOMAIN ai_keywords : Contains(n, ai_keywords[k])

\* what the two tables say of each name a process can have
C22_Expected ==
  [name \in ProcNames \ {NoneVal} |->
     InExecutableTable(lower(name)) \/ ContainsKeyword(lower(name))]

\* every enumerated process has a name and is selected as the tables say
C22_SelectedByTables(selected) ==
  \A pid \in Pids :
     procs[pid] # Absent =>
        /\ pid \in selected <=> C22_Expected[procs[pid]]
        /\ \A q \in Pids : procs[q] = procs[pid] => (q \in selected <=> pid \in selected)

C22_Step ==
  (\A pid \in Pids : procs[pid] # NoneVal) =>
     /\ (KillRan' /\ ~EnumerationFaulted(ai_results'.failed)) =>
          C22_SelectedByTables(
            {log'[i].pid : i \in {j \in DOMAIN log' : log'[j].ev = "terminate"}})
     /\ (PreviewRan' /\ ~op'.enumeration.raises) =>
          C22_SelectedByTables(
            {result'.ai_applications[i].pid : i \in DOMAIN result'.ai_applications})

C22_ClassifierFollowsTables == [][C22_Step]_vars

\* 'Cursor.exe' (in both tables) and 'My GPT Helper' (a keyword only) were killed
C22_Witness ==
  /\ KillRan
  /\ \E i, j \in DOMAIN ai_results.killed :
        /\ ai_results.killed[i].name = name_cursor
        /\ ai_results.killed[j].name = name_helper

(***************************************************************************)
(* C23: within one kill_all_targeted(exam_url) the protected domain is     *)
(* updated (when a URL is given) before any process is signalled, every    *)
(* kill attempt is over before the first tab list is requested or the      *)
(* first tab is closed, and the closure runs with preserve_exam_tab = True.*)
(***************************************************************************)
KillAllRan == op.name = "kill_all_targeted" /\ ~op.raised

KillEvents(made) ==
  {i \in DOMAIN made : made[i].ev \in {"terminate", "wait", "TimeoutExpired", "kill"}}

ClosureEvents(made) == {i \in DOMAIN made : made[i].ev \in {"list", "close"}}

DomainEvents(made) == {i \in DOMAIN made : made[i].ev = "set_exam_domain"}

C23_Step ==
  KillAllRan' =>
     /\ DomainEvents(log') = {1}
     /\ exam_domain' = IF Truthy(op'.arg) THEN Authority(op'.arg) ELSE exam_domain
     /\ \A i \in KillEvents(log') : \A j \in ClosureEvents(log') : 1 < i /\ i < j
     \* the pass protects the tabs of the domain the call stored
     /\ \A f \in Families :
          /\ result'.browser_tabs[f].preserved = ProtectedCount(f, exam_domain')
          /\ \A i \in DOMAIN ListedTabs(f) :
               _is_exam_tab(exam_domain', ListedTabs(f)[i].url) =>
                  CloseRequestsFor(log', ActivePort(f), ListedTabs(f)[i].id) = {}

C23_KillThenCloseInOrder == [][C23_Step]_vars

\* a call with a URL that signalled a process, closed a tab and preserved one
C23_Witness ==
  /\ KillAllRan
  /\ op.arg = url_exam
  /\ KillEvents(log) # {}
  /\ \E i \in ClosureEvents(log) : log[i].ev = "close"
  /\ result.browser_tabs.chrome.preserved = 1

(***************************************************************************)
(* C24: whatever the faults of the processes and of the endpoints and      *)
(* whatever exam_url the caller gives, kill_ai_applications,               *)
(* close_browser_tabs, kill_all_targeted and get_termination_preview       *)
(* return normally with every documented field of their result; none of    *)
(* them raises.                                                            *)
(***************************************************************************)
PublicOperations ==
  {"kill_ai_applications", "close_browser_tabs", "kill_all_targeted",
   "get_termination_preview"}

KillFields == {"killed", "failed", "not_found"}

ClosureFields == Families \cup {"total_closed", "total_preserved"}

C24_Complete ==
  CASE op.name = "kill_ai_applications" -> DOMAIN result = KillFields
    [] op.name = "close_browser_tabs" ->
         /\ DOMAIN result = ClosureFields
         /\ \A f \in Families : DOMAIN result[f] = {"closed", "preserved", "errors"}
    [] op.name = "kill_all_targeted" ->
         /\ {"ai_applications", "browser_tabs", "success"} \subseteq DOMAIN result
         /\ DOMAIN result.ai_applications = KillFields
         /\ DOMAIN result.browser_tabs = ClosureFields
    [] op.name = "get_termination_preview" ->
         /\ {"ai_applications", "browser_tabs"} \subseteq DOMAIN result
         /\ DOMAIN result.browser_tabs = Families

C24_NoFailurePropagates ==
  op.name \in PublicOperations => (~op.raised /\ C24_Complete)

(***************************************************************************)
(* C25: a fault of a whole phase of kill_ai_applications (the enumeration  *)
(* raises, or inspecting one process raises an error no inner clause       *)
(* catches) is caught by the outer clause and shows as exactly one entry   *)
(* without a pid, appended to `failed`; what killed and failed held before *)
(* the fault is kept and the result has its three fields.                  *)
(***************************************************************************)
Synthetic(failed) == {i \in DOMAIN failed : ~BearsPid(failed[i])}

\* the first process whose inspection raises (its name is None), or 0
FirstUninspectable ==
  LET none == {i \in DOMAIN process_iter : procs[process_iter[i]] = NoneVal}
  IN  IF none = {} THEN 0 ELSE CHOOSE i \in none : \A j \in none : i <= j

C25_Step ==
  KillRan' =>
     LET killed == ai_results'.killed
         failed == ai_results'.failed
     IN  /\ DOMAIN ai_results' = KillFields
         /\ Synthetic(failed) \subseteq {Len(failed)}
         /\ FirstUninspectable # 0 => Synthetic(failed) = {Len(failed)}
         \* every attempt made before the fault has kept its entry
         /\ \A pid \in Pids :
              (\E i \in DOMAIN log' : log'[i] = Event("terminate", pid, 0, ""))
                 => EntriesOf(killed, pid) + EntriesOf(failed, pid) = 1
         /\ (Synthetic(failed) # {} /\ failed[Len(failed)].error = "AttributeError") =>
              \A i \in DOMAIN process_iter :
                 LET pid == process_iter[i]
                 IN  /\ (i < FirstUninspectable /\ IsAIProcess(pid)) =>
                          EntriesOf(killed, pid) + EntriesOf(failed, pid) = 1
                     /\ i >= FirstUninspectable =>
                          EntriesOf(killed, pid) + EntriesOf(failed, pid) = 0

C25_PhaseFaultIsOneEntry == [][C25_Step]_vars

\* one process was killed, another failed, then the phase faulted
C25_Witness ==
  /\ KillRan
  /\ Len(ai_results.killed) = 1
  /\ Len(ai_results.failed) = 2
  /\ BearsPid(ai_results.failed[1])
  /\ Synthetic(ai_results.failed) = {2}

(***************************************************************************)
(* C27: a second kill_all_targeted made right after a first one in which   *)
(* every kill and every close succeeded, no process started and no tab     *)
(* opened in between, reports no killed process, no failure, closed = 0    *)
(* and no error for every family, and the preserved counts of the first.   *)
(***************************************************************************)
Reinvoked == op.name = "kill_all_targeted" /\ "first" \in DOMAIN op

C27_Repeats(families) ==
  Reinvoked =>
     /\ result.ai_applications.killed = <<>>
     /\ result.ai_applications.failed = <<>>
     /\ \A f \in families :
          /\ result.browser_tabs[f].closed = 0
          /\ result.browser_tabs[f].errors = <<>>
          /\ result.browser_tabs[f].preserved = op.first.browser_tabs[f].preserved

C27_ReinvocationFindsNothing == C27_Repeats(Families)

(***************************************************************************)
(* C28: for every process name the is_ai_app flag the monitor computes     *)
(* (shown by get_running_processes, selecting get_ai_processes' entries)   *)
(* is the verdict of the killer's _is_ai_application: a process the killer *)
(* would terminate is reported as an AI process, and the other way round.  *)
(***************************************************************************)
C28_SameClassification ==
  /\ op.name = "get_running_processes" =>
       \A i \in DOMAIN result : result[i].is_ai_app = classified[result[i].name]
  /\ op.name = "get_ai_processes" =>
       /\ \A i \in DOMAIN result : IsAIProcess(result[i].pid)
       /\ ~op.enumeration.raises =>
            \A pid \in Pids : IsAIProcess(pid) => \E i \in DOMAIN result : result[i].pid = pid

(***************************************************************************)
(* C30: after any closure pass, for chrome and for edge, closed +          *)
(* preserved + len(errors) is the number of page tabs the family's active  *)
(* endpoint listed, each of these tabs being counted once: as preserved,   *)
(* as closed, or by one error; total_closed is the sum of the three        *)
(* families' closed counts.                                                *)
(***************************************************************************)
\* the errors of a family that are about the tab
ErrorsAbout(errors, tab) ==
  {k \in DOMAIN errors : errors[k].about \in {tab.id, tab.title}}

\* the tab was preserved: no close request, no error
C30_Preserved(f, r, tab) ==
  /\ CloseRequestsFor(log', ActivePort(f), tab.id) = {}
  /\ ErrorsAbout(r.errors, tab) = {}

\* the tab had its one close request, which ended in one error or in closed
C30_Requested(f, r, tab) ==
  /\ Cardinality(CloseRequestsFor(log', ActivePort(f), tab.id)) = 1
  /\ Cardinality(ErrorsAbout(r.errors, tab)) <= 1

C30_Step ==
  ClosureRan' =>
     /\ \A f \in {"chrome", "edge"} :
          LET r == tab_results'[f]
              pages == Pages(ActiveEntries(f))
              kept == {i \in DOMAIN pages : C30_Preserved(f, r, pages[i])}
              asked == {i \in DOMAIN pages : C30_Requested(f, r, pages[i])}
              failed == {i \in asked : ErrorsAbout(r.errors, pages[i]) # {}}
          IN  /\ r.closed + r.preserved + Len(r.errors) = Len(pages)
              /\ kept \cup asked = DOMAIN pages
              /\ r.preserved = Cardinality(kept)
              /\ Len(r.errors) = Cardinality(failed)
              /\ r.closed = Cardinality(asked \ failed)
     /\ tab_results'.total_closed =
          tab_results'.chrome.closed + tab_results'.firefox.closed
            + tab_results'.edge.closed

InFlight(t) == threads[t].pc \in {"closure", "tabs"}

C26_OneWorkflowInFlight == Cardinality({t \in Workers : InFlight(t)}) <= 1

(***************************************************************************)
(* C29: within one closure pass every tab is tested against one protected  *)
(* domain: however the pass interleaves with other requests on the killer, *)
(* the domain _is_exam_tab reads is the one the pass started with, from    *)
(* its first tab to its last, and no tab on that domain is closed.         *)
(***************************************************************************)
\* the close requests the thread has made in the family it is going through
ThreadClosed(thread) ==
  {tab \in TabPool :
     \E i \in DOMAIN thread.st.log : thread.st.log[i].ev = "close" /\ thread.st.log[i].id = tab.id}

C29_OneDomainPerPass ==
  \A t \in Workers :
     At(t, "tabs") =>
        /\ threads[t].read \subseteq {threads[t].started_with}
        /\ Truthy(threads[t].started_with) =>
             \A tab \in ThreadClosed(threads[t]) :
                Authority(tab.url) # threads[t].started_with

(***************************************************************************)
(* C31: the protected domain is written by set_exam_domain with a          *)
(* non-empty URL and by nothing else (kill_all_targeted writes it through  *)
(* that call): every other operation, and a call with an empty or absent   *)
(* URL, leaves it as it was; a domain once set is replaced by another      *)
(* domain at most, never cleared.                                          *)
(***************************************************************************)
C31_WrittenBySetAlone ==
  exam_domain' # exam_domain =>
     /\ op'.name \in {"set_exam_domain", "kill_all_targeted"}
     /\ Truthy(op'.arg)

C31_NeverCleared == Truthy(exam_domain) => Truthy(exam_domain')

C31_Step == C31_WrittenBySetAlone /\ C31_NeverCleared

C31_DomainWrittenOnlyBySet == [][C31_Step]_vars

(***************************************************************************)
(* C32: however start_monitoring and stop_monitoring events interleave     *)
(* with the loop's sleep, at most one monitoring_loop thread is alive; a   *)
(* stop followed by a start before the old loop tests its flag again does  *)
(* not leave two loops emitting updates.                                   *)
(***************************************************************************)
Alive(l) == loops[l] \in {"test", "update", "sleep"}

C32_OneMonitoringLoop == Cardinality({l \in Loops : Alive(l)}) <= 1

(***************************************************************************)
(* C33: in demo mode, whatever enable-demo-mode, disable-demo-mode,        *)
(* kill-all and close-tabs-only requests were handled one after another,   *)
(* demo_summary.total_tabs is the number of tabs held in demo_browser_tabs;*)
(* a kill-all or close-tabs-only request keeps every tab whose URL         *)
(* contains 'localhost:5000', and the closed count it reports is not       *)
(* negative and is the number of tabs it removed.                          *)
(***************************************************************************)
DemoRoutes == {"/api/kill-all", "/api/close-tabs-only"}

\* the step is a kill-all or close-tabs-only request handled in demo mode
DemoRequestStep == op = Idle /\ demo_mode_enabled /\ op'.name \in DemoRoutes

\* the closed count of the response
ReportedClosed(call, response) ==
  IF call.name = "/api/kill-all" THEN response.browser_tabs.total_closed
                                 ELSE response.total_closed

C33_SummaryCountsTabs == demo_summary.total_tabs = tabs_held(demo_browser_tabs)

C33_ExamTabsKept ==
  \A f \in DOMAIN demo_browser_tabs : \A tab \in Range(demo_browser_tabs[f]) :
     Contains(tab.url, demo_exam_host) => tab \in Range(demo_browser_tabs'[f])

C33_ClosedIsRemoved ==
  /\ ReportedClosed(op', result') >= 0
  /\ ReportedClosed(op', result') = tabs_held(demo_browser_tabs) - tabs_held(demo_browser_tabs')

C33_Step ==
  /\ C33_SummaryCountsTabs'
  /\ DemoRequestStep => C33_ExamTabsKept /\ C33_ClosedIsRemoved

C33_DemoTabsAccounted == [][C33_Step]_vars

\* a kill-all in demo mode has closed the three AI tabs and kept the exam tab;
\* a further close-tabs-only found nothing left to close
C33_Witness ==
  /\ demo_mode_enabled
  /\ op.name = "/api/close-tabs-only"
  /\ result.total_closed = 0
  /\ demo_summary.total_tabs = 1
  /\ demo_browser_tabs.chrome = <<[id |-> "demo3", url |-> demo_url_exam, active |-> TRUE]>>

C33_WitnessKillAll ==
  /\ demo_mode_enabled
  /\ op.name = "/api/kill-all"
  /\ result.browser_tabs.total_closed = 3
  /\ tabs_held(demo_browser_tabs) = 1

=============================================================================
